---- MODULE Spec2Model ----
(***************************************************************************)
(* Nexus Course Enroll: the enrollment transaction of the student service  *)
(* (enroll_in_course, drop_course), the admin override (force_enrollment)  *)
(* and the persistence layer they share (SQLiteDatabase).                  *)
(*                                                                         *)
(* Every service is its own Python process (run_services.py starts one     *)
(* interpreter per script) and every process builds its own SQLiteDatabase *)
(* object: in-memory dictionaries loaded once from the SQLite file, which  *)
(* is the only thing the processes share.  A handler is an `async def`     *)
(* without any await, so inside one process uvicorn's event loop runs it   *)
(* to completion before the next request of that process is served:        *)
(* concurrent requests are handled in some order, one handler at a time.   *)
(***************************************************************************)
EXTENDS Integers, Sequences, FiniteSets, TLC

VARIABLES
    sql,      \* the SQLite file: tables users, courses, enrollments, grades
    mem,      \* per process: the dictionaries of its SQLiteDatabase object
    nextId,   \* the next fresh enrollment id (uuid4 never repeats)
    last,     \* the request served last, with its response
    runner    \* run_services.main: its position, its list `processes`

vars == <<sql, mem, nextId, last, runner>>

(***************************************************************************)
(* Bounds                                                                  *)
(***************************************************************************)
MaxEnr == 2       \* enrollment ids 1..MaxEnr can be created
MaxServices == 3  \* the first MaxServices entries of SERVICES are run

(***************************************************************************)
(* The universe of the model                                               *)
(***************************************************************************)
Procs == {"student", "admin", "auth", "faculty"}

UserIds == {"s1", "s2"}
ReqUserIds == UserIds \cup {"sx"}          \* "sx" is no user
CourseIds == {"c1", "c2"}
ReqCourseIds == CourseIds \cup {"cx"}      \* "cx" is no course
Semesters == {"Fall 2024"}
EnrollmentIds == 1..MaxEnr
ReqEnrollmentIds == 1..(MaxEnr + 1)        \* MaxEnr + 1 is never created

Requests == [student_id : ReqUserIds, course_id : ReqCourseIds,
             semester : Semesters]

(***************************************************************************)
(* Python dictionaries are functions; DOMAIN is the key set.               *)
(***************************************************************************)
Put(d, k, v) == [x \in (DOMAIN d) \cup {k} |-> IF x = k THEN v ELSE d[x]]

Max(a, b) == IF a >= b THEN a ELSE b

\* the status default taken from the other value the spec names
Enrollment_Waitlisted(id, student_id, course_id, semester) ==
    [id |-> id, student_id |-> student_id, course_id |-> course_id,
     semester |-> semester, status |-> "waitlisted"]

\* models.py: Enrollment; status defaults to "enrolled"
Enrollment(id, student_id, course_id, semester) ==
    [id |-> id, student_id |-> student_id, course_id |-> course_id,
     semester |-> semester, status |-> "enrolled"]

\* models.py: User, as signup and the sample data make a student
User(id, username, email) ==
    [id |-> id, role |-> "student", username |-> username, email |-> email]

\* models.py: Course; enrolled_count defaults to 0
Course(id, capacity, schedule, prerequisites) ==
    [id |-> id, capacity |-> capacity, enrolled_count |-> 0,
     schedule |-> schedule, prerequisites |-> prerequisites]

NoCourse == [id |-> "None", capacity |-> 0, enrolled_count |-> 0,
             schedule |-> << >>, prerequisites |-> << >>]
NoUser == [id |-> "None", role |-> "none", username |-> "None",
           email |-> "None"]

(***************************************************************************)
(* SQLiteDatabase.  d is the database as one process sees it:              *)
(* d.m its dictionaries, d.q the SQLite file.                              *)
(***************************************************************************)
_save_course(d, course) ==
    [m |-> [d.m EXCEPT !.courses = Put(@, course.id, course)],
     q |-> [d.q EXCEPT !.courses = Put(@, course.id, course)]]

\* the row written, `self.enrollments[enrollment.id] = enrollment` forgotten
_save_enrollment_StoreOnly(d, enrollment) ==
    [d EXCEPT !.q.enrollments = Put(@, enrollment.id, enrollment)]

_save_enrollment(d, enrollment) ==
    [m |-> [d.m EXCEPT !.enrollments = Put(@, enrollment.id, enrollment)],
     q |-> [d.q EXCEPT !.enrollments = Put(@, enrollment.id, enrollment)]]

add_enrollment(d, enrollment) == _save_enrollment(d, enrollment)

refresh_user_from_db(d, user_id) ==
    IF user_id \in DOMAIN d.m.users
    THEN [d |-> d, found |-> TRUE, user |-> d.m.users[user_id]]
    ELSE IF user_id \in DOMAIN d.q.users
    THEN [d |-> [d EXCEPT !.m.users = Put(@, user_id, d.q.users[user_id])],
          found |-> TRUE, user |-> d.q.users[user_id]]
    ELSE [d |-> d, found |-> FALSE, user |-> NoUser]

get_user_by_id(d, user_id) == refresh_user_from_db(d, user_id)

_save_user(d, user) ==
    [m |-> [d.m EXCEPT !.users = Put(@, user.id, user)],
     q |-> [d.q EXCEPT !.users = Put(@, user.id, user)]]

add_user(d, user) == _save_user(d, user)

\* every row of the users table replaces the cached object of that id
refresh_all_users_from_db(d) ==
    [d EXCEPT !.m.users =
        [u \in (DOMAIN d.m.users) \cup (DOMAIN d.q.users) |->
            IF u \in DOMAIN d.q.users THEN d.q.users[u] ELSE d.m.users[u]]]

get_all_users_refreshed(d) == refresh_all_users_from_db(d)

refresh_course_from_db(d, course_id) ==
    IF course_id \in DOMAIN d.m.courses
    THEN [d |-> d, found |-> TRUE, course |-> d.m.courses[course_id]]
    ELSE IF course_id \in DOMAIN d.q.courses
    THEN [d |-> [d EXCEPT !.m.courses =
                     Put(@, course_id, d.q.courses[course_id])],
          found |-> TRUE, course |-> d.q.courses[course_id]]
    ELSE [d |-> d, found |-> FALSE, course |-> NoCourse]

\* every row of the courses table replaces the cached object of that id;
\* cached courses without a row stay
refresh_all_courses_from_db(d) ==
    [d EXCEPT !.m.courses =
        [c \in (DOMAIN d.m.courses) \cup (DOMAIN d.q.courses) |->
            IF c \in DOMAIN d.q.courses THEN d.q.courses[c]
            ELSE d.m.courses[c]]]

get_all_courses_refreshed(d) == refresh_all_courses_from_db(d)

\* the dictionaries of a process that starts on the file q
_load_data(q) ==
    [users |-> q.users, courses |-> q.courses,
     enrollments |-> q.enrollments, grades |-> q.grades]

(***************************************************************************)
(* student_service.has_time_conflict.  A schedule is a string, modelled as *)
(* the sequence of its characters.                                         *)
(***************************************************************************)
IsSpace(ch) == ch = " "

RECURSIVE SkipSpaces(_)
SkipSpaces(s) ==
    IF s = << >> THEN << >>
    ELSE IF IsSpace(Head(s)) THEN SkipSpaces(Tail(s)) ELSE s

RECURSIVE TakeToken(_)
TakeToken(s) ==
    IF s = << >> THEN << >>
    ELSE IF IsSpace(Head(s)) THEN << >>
    ELSE <<Head(s)>> \o TakeToken(Tail(s))

\* schedule.split()[0] if schedule.split() else ""
FirstToken(schedule) == TakeToken(SkipSpaces(schedule))

\* every character of the schedule strings compared, not the first token
has_time_conflict_WholeString(schedule1, schedule2) ==
    \E i \in 1..Len(schedule1) : \E j \in 1..Len(schedule2) :
        schedule1[i] = schedule2[j]

has_time_conflict(schedule1, schedule2) ==
    LET days1 == FirstToken(schedule1)
        days2 == FirstToken(schedule2)
    IN \E i \in 1..Len(days1) : \E j \in 1..Len(days2) : days1[i] = days2[j]

(***************************************************************************)
(* Responses.  status is the HTTP status; detail the HTTPException detail  *)
(* (its constant part) and about the course it names; enrollment_id the    *)
(* identifier a successful enrollment returns, 0 otherwise.                *)
(***************************************************************************)
Response(d, status, detail, about, enrollment_id) ==
    [d |-> d, status |-> status, detail |-> detail, about |-> about,
     enrollment_id |-> enrollment_id]

\* the ids of a dictionary of enrollments in iteration (insertion) order:
\* ids are handed out in increasing order
MinOf(S) == CHOOSE x \in S : \A y \in S : x <= y

(***************************************************************************)
(* student_service.enroll_in_course                                        *)
(***************************************************************************)
\* the duplicate check without the semester
ExistingEnrollment_AnySemester(m, request) ==
    \E i \in DOMAIN m.enrollments :
        /\ m.enrollments[i].student_id = request.student_id
        /\ m.enrollments[i].course_id = request.course_id
        /\ m.enrollments[i].status = "enrolled"

\* the duplicate check with the course compared to the wrong request field
ExistingEnrollment_WrongField(m, request) ==
    \E i \in DOMAIN m.enrollments :
        /\ m.enrollments[i].student_id = request.student_id
        /\ m.enrollments[i].course_id = request.student_id
        /\ m.enrollments[i].semester = request.semester
        /\ m.enrollments[i].status = "enrolled"

\* lines 67-75: an enrollment of the same student, course and semester
\* with status "enrolled"
ExistingEnrollment(m, request) ==
    \E i \in DOMAIN m.enrollments :
        /\ m.enrollments[i].student_id = request.student_id
        /\ m.enrollments[i].course_id = request.course_id
        /\ m.enrollments[i].semester = request.semester
        /\ m.enrollments[i].status = "enrolled"

\* lines 85-90: student_completed_courses
\* (before it: the same without the test of grade.status)
student_completed_courses_AnyStatus(m, student_id) ==
    {m.grades[g].course_id : g \in
        {x \in DOMAIN m.grades :
            /\ m.grades[x].student_id = student_id
            /\ m.grades[x].grade \in {"A", "B", "C", "D"}}}

\* every letter grade taken as completion
CompletedGrades_AnyLetter == {"A", "B", "C", "D", "F"}

CompletedGrades == {"A", "B", "C", "D"}

student_completed_courses(m, student_id) ==
    {m.grades[g].course_id : g \in
        {x \in DOMAIN m.grades :
            /\ m.grades[x].student_id = student_id
            /\ m.grades[x].status = "submitted"
            /\ m.grades[x].grade \in CompletedGrades}}

\* lines 92-93: the positions of course.prerequisites that are not completed
UnmetPrereqs(m, course, student_id) ==
    {k \in 1..Len(course.prerequisites) :
        course.prerequisites[k] \notin student_completed_courses(m, student_id)}

\* lines 102-105: student_enrollments
student_enrollments(m, student_id, semester) ==
    {i \in DOMAIN m.enrollments :
        /\ m.enrollments[i].student_id = student_id
        /\ m.enrollments[i].semester = semester
        /\ m.enrollments[i].status = "enrolled"}

\* lines 107-113: the loop over student_enrollments; every iteration looks
\* the enrolled course up (which caches it) and stops at the first conflict
RECURSIVE TimeConflictScan(_, _, _)
TimeConflictScan(d, course, ids) ==
    IF ids = {} THEN [d |-> d, conflict |-> FALSE, with |-> "-"]
    ELSE LET i == MinOf(ids)
             rc == refresh_course_from_db(d, d.m.enrollments[i].course_id)
         IN IF rc.found /\ has_time_conflict(course.schedule, rc.course.schedule)
            THEN [d |-> rc.d, conflict |-> TRUE, with |-> rc.course.id]
            ELSE TimeConflictScan(rc.d, course, ids \ {i})

\* lines 115-133: the new Enrollment, the increment of the cached course
\* object, then the two saves
\* the seat counted twice, by the handler and again on saving
EnrollCommit_DoubleCount(d, course, request, enrollment_id) ==
    LET new_enrollment == Enrollment(enrollment_id, request.student_id,
                                     request.course_id, request.semester)
        counted == [course EXCEPT !.enrolled_count = @ + 2]
        d1 == [d EXCEPT !.m.enrollments = Put(@, enrollment_id, new_enrollment),
                        !.m.courses = Put(@, course.id, counted)]
        d2 == add_enrollment(d1, new_enrollment)
    IN _save_course(d2, counted)

\* the commit without `course.enrolled_count += 1`
EnrollCommit_NoIncrement(d, course, request, enrollment_id) ==
    LET new_enrollment == Enrollment(enrollment_id, request.student_id,
                                     request.course_id, request.semester)
        d1 == [d EXCEPT !.m.enrollments = Put(@, enrollment_id, new_enrollment)]
        d2 == add_enrollment(d1, new_enrollment)
    IN _save_course(d2, course)

\* lines 115-131: the new Enrollment and the incremented count are put in
\* the dictionaries, then both are saved
EnrollCommit(d, course, request, enrollment_id) ==
    LET new_enrollment == Enrollment(enrollment_id, request.student_id,
                                     request.course_id, request.semester)
        counted == [course EXCEPT !.enrolled_count = @ + 1]
        d1 == [d EXCEPT !.m.enrollments = Put(@, enrollment_id, new_enrollment),
                        !.m.courses = Put(@, course.id, counted)]
        d2 == add_enrollment(d1, new_enrollment)
    IN _save_course(d2, counted)

\* the capacity check with = for >=
CourseIsFull_OnlyEqual(course) == course.enrolled_count = course.capacity

\* the capacity check with > for >=
CourseIsFull_OffByOne(course) == course.enrolled_count > course.capacity

\* lines 80-82
CourseIsFull(course) == course.enrolled_count >= course.capacity

\* the checks with the prerequisite check moved before the capacity check
enroll_validate_PrereqFirst(d, request) ==
    LET rc == refresh_course_from_db(d, request.course_id)
        ru == get_user_by_id(rc.d, request.student_id)
        unmet == UnmetPrereqs(ru.d.m, rc.course, request.student_id)
    IN
    IF ~rc.found THEN Response(d, 404, "Course not found", "-", 0)
    ELSE IF ~ru.found THEN Response(ru.d, 404, "Student not found", "-", 0)
    ELSE IF ExistingEnrollment(ru.d.m, request)
    THEN Response(ru.d, 400, "Already enrolled in this course", "-", 0)
    ELSE IF unmet # {}
    THEN Response(ru.d, 400, "Prerequisite not met",
                  rc.course.prerequisites[MinOf(unmet)], 0)
    ELSE IF CourseIsFull(rc.course)
    THEN Response(ru.d, 400, "Course is full", "-", 0)
    ELSE
    LET scan == TimeConflictScan(ru.d, rc.course,
                    student_enrollments(ru.d.m, request.student_id,
                                        request.semester))
    IN
    IF scan.conflict
    THEN Response(scan.d, 400, "Time conflict", scan.with, 0)
    ELSE Response(scan.d, 200, "checks passed", "-", 0)

\* lines 58-113: the look-ups and the four checks, in the order of the code;
\* the response is the HTTPException raised, or status 200 with the
\* database after the look-ups when every check passed
enroll_validate(d, request) ==
    LET rc == refresh_course_from_db(d, request.course_id) IN
    IF ~rc.found THEN Response(d, 404, "Course not found", "-", 0)
    ELSE
    LET ru == get_user_by_id(rc.d, request.student_id)
        course == rc.course
    IN
    IF ~ru.found THEN Response(ru.d, 404, "Student not found", "-", 0)
    ELSE IF ExistingEnrollment(ru.d.m, request)
    THEN Response(ru.d, 400, "Already enrolled in this course", "-", 0)
    ELSE IF CourseIsFull(course)
    THEN Response(ru.d, 400, "Course is full", "-", 0)
    ELSE
    LET unmet == UnmetPrereqs(ru.d.m, course, request.student_id) IN
    IF unmet # {}
    THEN LET prereq == course.prerequisites[MinOf(unmet)]
             rp == refresh_course_from_db(ru.d, prereq)
         IN Response(rp.d, 400, "Prerequisite not met", prereq, 0)
    ELSE
    LET scan == TimeConflictScan(ru.d, course,
                    student_enrollments(ru.d.m, request.student_id,
                                        request.semester))
    IN
    IF scan.conflict
    THEN Response(scan.d, 400, "Time conflict", scan.with, 0)
    ELSE Response(scan.d, 200, "checks passed", "-", 0)

\* the two writes placed before the time-conflict check
enroll_in_course_WriteBeforeConflictCheck(d, request, enrollment_id) ==
    LET v == enroll_validate(d, request) IN
    IF v.status # 200 /\ v.detail # "Time conflict" THEN v
    ELSE LET written == EnrollCommit(v.d, v.d.m.courses[request.course_id],
                                     request, enrollment_id)
         IN IF v.status = 200
            THEN Response(written, 200, "Successfully enrolled", "-",
                          enrollment_id)
            ELSE Response(written, v.status, v.detail, v.about, 0)

\* lines 55-133: an HTTPException ends the handler; otherwise the
\* enrollment is committed and its id returned
\* the seat taken before the prerequisite and time-conflict checks and not
\* given back when they refuse the request
enroll_in_course_KeepsReservedSeat(d, request, enrollment_id) ==
    LET v == enroll_validate(d, request) IN
    IF v.status = 400 /\ v.detail \in {"Prerequisite not met", "Time conflict"}
    THEN [v EXCEPT !.d.m.courses[request.course_id].enrolled_count = @ + 1]
    ELSE IF v.status # 200 THEN v
    ELSE Response(EnrollCommit(v.d, v.d.m.courses[request.course_id],
                               request, enrollment_id),
                  200, "Successfully enrolled", "-", enrollment_id)

\* the student looked up before the course
enroll_in_course_StudentFirst(d, request, enrollment_id) ==
    LET ru == get_user_by_id(d, request.student_id)
        v == enroll_validate(d, request)
    IN IF ~ru.found THEN Response(ru.d, 404, "Student not found", "-", 0)
       ELSE IF v.status # 200 THEN v
       ELSE Response(EnrollCommit(v.d, v.d.m.courses[request.course_id],
                                  request, enrollment_id),
                     200, "Successfully enrolled", "-", enrollment_id)

enroll_in_course(d, request, enrollment_id) ==
    LET v == enroll_validate(d, request) IN
    IF v.status # 200 THEN v
    ELSE Response(EnrollCommit(v.d, v.d.m.courses[request.course_id],
                               request, enrollment_id),
                  200, "Successfully enrolled", "-", enrollment_id)

\* enroll_in_course when a write to the SQLite file fails (sqlite3 raises
\* in execute or commit of add_enrollment, line 130, or of _save_course,
\* line 131: locked database, full disk).  The failing _save_ writes no
\* row; the exception leaves the handler (there is no try/except, no
\* rollback) and FastAPI answers 500.  Lines 126-127 have already put the
\* Enrollment in the dictionary and incremented the cached Course.
enroll_in_course_fails(d, request, enrollment_id, failing) ==
    LET v == enroll_validate(d, request) IN
    IF v.status # 200 THEN v
    ELSE
    LET course == v.d.m.courses[request.course_id]
        new_enrollment == Enrollment(enrollment_id, request.student_id,
                                     request.course_id, request.semester)
        counted == [course EXCEPT !.enrolled_count = @ + 1]
        d1 == [v.d EXCEPT
                  !.m.enrollments = Put(@, enrollment_id, new_enrollment),
                  !.m.courses = Put(@, course.id, counted)]
    IN IF failing = "add_enrollment"
       THEN Response(d1, 500, "Internal Server Error", "-", enrollment_id)
       ELSE Response(add_enrollment(d1, new_enrollment), 500,
                     "Internal Server Error", "-", enrollment_id)

(***************************************************************************)
(* student_service.drop_course                                             *)
(***************************************************************************)
\* the decrement forgotten
DropCount_NoDecrement(course) == course

\* the decrement without max(0, ...)
DropCount_NoFloor(course) ==
    [course EXCEPT !.enrolled_count = course.enrolled_count - 1]

\* lines 142-145
DropCount(course) ==
    [course EXCEPT !.enrolled_count = Max(0, course.enrolled_count - 1)]

\* a second Drop taken as an undo: the Enrollment is "enrolled" again
drop_course_Toggle(d, enrollment_id) ==
    IF enrollment_id \notin DOMAIN d.m.enrollments
    THEN Response(d, 404, "Enrollment not found", "-", 0)
    ELSE
    LET enrollment == d.m.enrollments[enrollment_id]
        d1 == IF enrollment.course_id \in DOMAIN d.m.courses
              THEN _save_course(d, DropCount(d.m.courses[enrollment.course_id]))
              ELSE d
        toggled == [enrollment EXCEPT !.status =
                       IF @ = "dropped" THEN "enrolled" ELSE "dropped"]
    IN Response(_save_enrollment(d1, toggled), 200,
                "Successfully dropped course", "-", enrollment_id)

\* a Drop of an Enrollment that is not "enrolled" refused
drop_course_RejectsDropped(d, enrollment_id) ==
    IF enrollment_id \notin DOMAIN d.m.enrollments
    THEN Response(d, 404, "Enrollment not found", "-", 0)
    ELSE IF d.m.enrollments[enrollment_id].status # "enrolled"
    THEN Response(d, 400, "Enrollment is not active", "-", 0)
    ELSE
    LET enrollment == d.m.enrollments[enrollment_id]
        d1 == IF enrollment.course_id \in DOMAIN d.m.courses
              THEN _save_course(d, DropCount(d.m.courses[enrollment.course_id]))
              ELSE d
        dropped == [enrollment EXCEPT !.status = "dropped"]
    IN Response(_save_enrollment(d1, dropped), 200,
                "Successfully dropped course", "-", enrollment_id)

\* an unknown id answered like a successful drop
drop_course_SilentMissing(d, enrollment_id) ==
    IF enrollment_id \notin DOMAIN d.m.enrollments
    THEN Response(d, 200, "Successfully dropped course", "-", enrollment_id)
    ELSE
    LET enrollment == d.m.enrollments[enrollment_id]
        d1 == IF enrollment.course_id \in DOMAIN d.m.courses
              THEN _save_course(d, DropCount(d.m.courses[enrollment.course_id]))
              ELSE d
        dropped == [enrollment EXCEPT !.status = "dropped"]
    IN Response(_save_enrollment(d1, dropped), 200,
                "Successfully dropped course", "-", enrollment_id)

\* the status set on the cached object, `db._save_enrollment` forgotten
drop_course_StatusNotSaved(d, enrollment_id) ==
    IF enrollment_id \notin DOMAIN d.m.enrollments
    THEN Response(d, 404, "Enrollment not found", "-", 0)
    ELSE
    LET enrollment == d.m.enrollments[enrollment_id]
        d1 == IF enrollment.course_id \in DOMAIN d.m.courses
              THEN _save_course(d, DropCount(d.m.courses[enrollment.course_id]))
              ELSE d
        dropped == [enrollment EXCEPT !.status = "dropped"]
    IN Response([d1 EXCEPT !.m.enrollments = Put(@, enrollment_id, dropped)],
                200, "Successfully dropped course", "-", enrollment_id)

drop_course(d, enrollment_id) ==
    IF enrollment_id \notin DOMAIN d.m.enrollments
    THEN Response(d, 404, "Enrollment not found", "-", 0)
    ELSE
    LET enrollment == d.m.enrollments[enrollment_id]
        d1 == IF enrollment.course_id \in DOMAIN d.m.courses
              THEN _save_course(d, DropCount(d.m.courses[enrollment.course_id]))
              ELSE d
        dropped == [enrollment EXCEPT !.status = "dropped"]
    IN Response(_save_enrollment(d1, dropped), 200,
                "Successfully dropped course", "-", enrollment_id)

\* drop_course when a write to the SQLite file fails: in _save_course
\* (line 145), after line 144 has decremented the cached Course, or in
\* _save_enrollment (line 148), after the course row is written and line
\* 147 has set the cached Enrollment to "dropped"
drop_course_fails(d, enrollment_id, failing) ==
    IF enrollment_id \notin DOMAIN d.m.enrollments
    THEN Response(d, 404, "Enrollment not found", "-", 0)
    ELSE
    LET enrollment == d.m.enrollments[enrollment_id]
        has_course == enrollment.course_id \in DOMAIN d.m.courses
        counted == DropCount(d.m.courses[enrollment.course_id])
        dropped == [enrollment EXCEPT !.status = "dropped"]
    IN IF has_course /\ failing = "_save_course"
       THEN Response([d EXCEPT !.m.courses = Put(@, counted.id, counted)],
                     500, "Internal Server Error", "-", enrollment_id)
       ELSE LET d1 == IF has_course THEN _save_course(d, counted) ELSE d
            IN Response([d1 EXCEPT !.m.enrollments =
                                      Put(@, enrollment_id, dropped)],
                        500, "Internal Server Error", "-", enrollment_id)

(***************************************************************************)
(* admin_service.force_enrollment                                          *)
(***************************************************************************)
\* lines 218-224: the Enrollment is stored first, then the cached course
\* object is incremented and saved
ForceCommit(d, request, enrollment_id) ==
    LET new_enrollment == Enrollment(enrollment_id, request.student_id,
                                     request.course_id, request.semester)
        d1 == [d EXCEPT !.m.enrollments = Put(@, enrollment_id, new_enrollment)]
        d2 == add_enrollment(d1, new_enrollment)
        counted == [d2.m.courses[request.course_id]
                        EXCEPT !.enrolled_count = @ + 1]
    IN _save_course(d2, counted)

\* the override with the capacity kept as a hard constraint
force_enrollment_HardCap(d, request, enrollment_id) ==
    IF request.student_id \notin DOMAIN d.m.users
    THEN Response(d, 404, "Student not found", "-", 0)
    ELSE IF request.course_id \notin DOMAIN d.m.courses
    THEN Response(d, 404, "Course not found", "-", 0)
    ELSE IF CourseIsFull(d.m.courses[request.course_id])
    THEN Response(d, 400, "Course is full", "-", 0)
    ELSE Response(ForceCommit(d, request, enrollment_id), 200,
                  "Force enrollment successful", "-", enrollment_id)

\* the override with the duplicate check of the normal path
force_enrollment_ChecksDuplicate(d, request, enrollment_id) ==
    IF request.student_id \notin DOMAIN d.m.users
    THEN Response(d, 404, "Student not found", "-", 0)
    ELSE IF request.course_id \notin DOMAIN d.m.courses
    THEN Response(d, 404, "Course not found", "-", 0)
    ELSE IF ExistingEnrollment(d.m, request)
    THEN Response(d, 400, "Already enrolled in this course", "-", 0)
    ELSE Response(ForceCommit(d, request, enrollment_id), 200,
                  "Force enrollment successful", "-", enrollment_id)

force_enrollment(d, request, enrollment_id) ==
    IF request.student_id \notin DOMAIN d.m.users
    THEN Response(d, 404, "Student not found", "-", 0)
    ELSE IF request.course_id \notin DOMAIN d.m.courses
    THEN Response(d, 404, "Course not found", "-", 0)
    ELSE Response(ForceCommit(d, request, enrollment_id), 200,
                  "Force enrollment successful", "-", enrollment_id)

(***************************************************************************)
(* student_service.browse_courses and admin_service.get_all_courses: the   *)
(* only effect on state is the refresh of the process's cached courses.    *)
(***************************************************************************)
\* the sync_to_database of the cached courses placed before the refresh
browse_courses_SavesCache(d) ==
    get_all_courses_refreshed(
        [d EXCEPT !.q.courses =
            [c \in (DOMAIN d.m.courses) \cup (DOMAIN d.q.courses) |->
                IF c \in DOMAIN d.m.courses THEN d.m.courses[c]
                ELSE d.q.courses[c]]])

browse_courses(d) == get_all_courses_refreshed(d)

get_all_courses(d) == get_all_courses_refreshed(d)

\* a Python dict applied to the attributes of a course object:
\* `for field, value in data.items(): setattr(course, field, value)`
\* restricted to the fields named in `fields`
SetAttrs(course, data, fields) ==
    [f \in DOMAIN course |->
        IF f \in (DOMAIN data) \cap fields THEN data[f] ELSE course[f]]

\* admin_service.create_course: no field of course_data is validated;
\* enrolled_count is not taken from it and defaults to 0
create_course(d, course_id, course_data) ==
    LET new_course == Course(course_id, course_data.capacity,
                             course_data.schedule, course_data.prerequisites)
    IN Response(_save_course(d, new_course), 200, "-", course_id, 0)

\* admin_service.update_course: every key of course_data that is an
\* attribute of Course is assigned
update_course(d, course_id, course_data) ==
    LET rc == refresh_course_from_db(d, course_id) IN
    IF ~rc.found THEN Response(d, 404, "Course not found", "-", 0)
    ELSE Response(_save_course(rc.d, SetAttrs(rc.course, course_data,
                                              DOMAIN rc.course)),
                  200, "-", course_id, 0)

\* faculty_service.request_course_update: only "description" and
\* "capacity" are assigned, and the course is saved if one of them was
request_course_update(d, course_id, updates) ==
    LET rc == refresh_course_from_db(d, course_id)
        allowed_updates == {"description", "capacity"}
    IN IF ~rc.found THEN Response(d, 404, "Course not found", "-", 0)
       ELSE IF (DOMAIN updates) \cap allowed_updates = {}
       THEN Response(rc.d, 200, "Course update request submitted", "-", 0)
       ELSE Response(_save_course(rc.d, SetAttrs(rc.course, updates,
                                                 allowed_updates)),
                     200, "Course update request submitted", course_id, 0)

\* the cache after refresh_course_from_db was called for every id of S
CachedCourses(d, S) ==
    [d EXCEPT !.m.courses =
        [c \in (DOMAIN d.m.courses) \cup (S \cap DOMAIN d.q.courses) |->
            IF c \in DOMAIN d.m.courses THEN d.m.courses[c]
            ELSE d.q.courses[c]]]

\* the cache after get_user_by_id was called for every id of S
CachedUsers(d, S) ==
    [d EXCEPT !.m.users =
        [u \in (DOMAIN d.m.users) \cup (S \cap DOMAIN d.q.users) |->
            IF u \in DOMAIN d.m.users THEN d.m.users[u] ELSE d.q.users[u]]]

\* student_service.get_course_details: GET /courses/{course_id}
get_course_details(d, course_id) ==
    LET rc == refresh_course_from_db(d, course_id) IN
    IF ~rc.found THEN Response(d, 404, "Course not found", "-", 0)
    ELSE Response(rc.d, 200, "-", course_id, 0)

\* student_service.get_student_schedule: the courses of the student's
\* enrolled Enrollments of the semester are looked up
get_student_schedule(d, student_id, semester) ==
    CachedCourses(d, {d.m.enrollments[i].course_id :
                         i \in student_enrollments(d.m, student_id, semester)})

\* faculty_service.get_faculty_courses
get_faculty_courses(d) == get_all_courses_refreshed(d)

\* faculty_service.get_course_roster: the course is looked up, then the
\* student of every enrolled Enrollment of the course
get_course_roster(d, course_id) ==
    LET rc == refresh_course_from_db(d, course_id) IN
    IF ~rc.found THEN Response(d, 404, "Course not found", "-", 0)
    ELSE Response(CachedUsers(rc.d,
                      {d.m.enrollments[i].student_id :
                          i \in {n \in DOMAIN d.m.enrollments :
                              /\ d.m.enrollments[n].course_id = course_id
                              /\ d.m.enrollments[n].status = "enrolled"}}),
                  200, "-", course_id, 0)

\* admin_service.get_enrollment_statistics (and the other two reports):
\* computed from db.courses and db.enrollments as they are
get_enrollment_statistics(d) == d

\* admin_service.get_all_users: GET /users
get_all_users(d) == get_all_users_refreshed(d)

(***************************************************************************)
(* auth_service.signup.  The duplicate checks read the dictionary of the   *)
(* auth process only; user_id is the fresh "student_<uuid>" id.  The       *)
(* requests of the model are well formed, so the four format checks        *)
(* (lengths of username, password and full name, "@" in the email) pass.   *)
(***************************************************************************)
signup(d, request, user_id) ==
    IF \E u \in DOMAIN d.m.users : d.m.users[u].username = request.username
    THEN Response(d, 400, "Username already exists", "-", 0)
    ELSE IF \E u \in DOMAIN d.m.users : d.m.users[u].email = request.email
    THEN Response(d, 400, "Email already exists", "-", 0)
    ELSE Response(add_user(d, User(user_id, request.username, request.email)),
                  200, "Student account created successfully!", user_id, 0)

(***************************************************************************)
(* The state machine                                                       *)
(***************************************************************************)
\* the database as process p sees it
DB(p) == [m |-> mem[p], q |-> sql]

\* A database file on which the services start: two students, two courses
\* as admin create_course makes them (enrolled_count 0), no enrollment yet.
\* c2 requires c1; both meet on Monday and Wednesday.  s1 has completed c1,
\* the grade of s2 is still pending.
InitialFile ==
    [users |->
        ("s1" :> User("s1", "john_doe", "john@university.edu")) @@
        ("s2" :> User("s2", "jane_smith", "jane@university.edu")),
     courses |->
        ("c1" :> Course("c1", 1, <<"M", "W", "F", " ", "9">>, << >>)) @@
        ("c2" :> Course("c2", 2, <<"M", "W", " ", "1", "0">>, <<"c1">>)),
     enrollments |-> << >>,
     grades |->
        ("g1" :> [id |-> "g1", student_id |-> "s1", course_id |-> "c1",
                  grade |-> "B", status |-> "submitted"]) @@
        ("g2" :> [id |-> "g2", student_id |-> "s2", course_id |-> "c1",
                  grade |-> "A", status |-> "pending"])]

\* run_services.py 14-45: the services in the order main starts them
SERVICES ==
    SubSeq(<<"auth", "student", "faculty", "admin", "notification">>,
           1, MaxServices)

\* subprocess.Popen: a process object whose poll() answers None
Popen(service) == [service |-> service, returncode |-> "None"]

\* main in its monitoring loop with every service started and running:
\* the state in which the services above serve requests
AllStarted ==
    [phase |-> "monitoring", i |-> 1,
     processes |-> [k \in 1..Len(SERVICES) |-> Popen(SERVICES[k])],
     down |-> {}, attempts |-> [k \in 1..Len(SERVICES) |-> 0],
     event |-> "-"]

Entry(op, student_id, course_id, enrollment_id, status, detail) ==
    [op |-> op, student_id |-> student_id, course_id |-> course_id,
     enrollment_id |-> enrollment_id, status |-> status, detail |-> detail]

Init ==
    /\ sql = InitialFile
    /\ mem = [p \in Procs |-> _load_data(InitialFile)]
    /\ nextId = 1
    /\ runner = AllStarted
    /\ last = Entry("start", "-", "-", 0, 200, "-")

\* process p has served a request with response r
Served(p, r) ==
    /\ mem' = [mem EXCEPT ![p] = r.d.m]
    /\ sql' = r.d.q
    /\ nextId' = IF r.enrollment_id = nextId THEN nextId + 1 ELSE nextId

\* POST /enroll of the student service
Enroll(request) ==
    LET r == enroll_in_course(DB("student"), request, nextId)
    IN /\ r.status = 200 => nextId <= MaxEnr
       /\ Served("student", r)
       /\ UNCHANGED runner
       /\ last' = Entry("enroll", request.student_id,
                     request.course_id, r.enrollment_id, r.status, r.detail)

\* DELETE /enroll/{enrollment_id} of the student service
Drop(enrollment_id) ==
    LET r == drop_course(DB("student"), enrollment_id)
    IN /\ mem' = [mem EXCEPT !["student"] = r.d.m]
       /\ sql' = r.d.q
       /\ UNCHANGED nextId
       /\ UNCHANGED runner
       /\ last' = Entry("drop", "-", "-", enrollment_id,
                            r.status, r.detail)

\* POST /enrollments/override of the admin service
ForceEnroll(request) ==
    LET r == force_enrollment(DB("admin"), request, nextId)
    IN /\ r.status = 200 => nextId <= MaxEnr
       /\ Served("admin", r)
       /\ UNCHANGED runner
       /\ last' = Entry("force", request.student_id,
                     request.course_id, r.enrollment_id, r.status, r.detail)

\* GET /courses of the student service
BrowseCourses ==
    /\ mem' = [mem EXCEPT !["student"] = browse_courses(DB("student")).m]
    /\ UNCHANGED <<sql, nextId>>
    /\ UNCHANGED runner
    /\ last' = Entry("browse_courses", "-", "-", 0, 200, "-")

\* GET /courses of the admin service
GetAllCourses ==
    /\ mem' = [mem EXCEPT !["admin"] = get_all_courses(DB("admin")).m]
    /\ UNCHANGED <<sql, nextId>>
    /\ UNCHANGED runner
    /\ last' = Entry("get_all_courses", "-", "-", 0, 200, "-")

Next ==
    \/ \E request \in Requests : Enroll(request)
    \/ \E enrollment_id \in ReqEnrollmentIds : Drop(enrollment_id)
    \/ \E request \in Requests : ForceEnroll(request)
    \/ BrowseCourses
    \/ GetAllCourses

Spec == Init /\ [][Next]_vars

TypeOK ==
    /\ nextId \in 1..(MaxEnr + 1)
    /\ DOMAIN sql.enrollments = 1..(nextId - 1)
    /\ \A p \in Procs : DOMAIN mem[p].enrollments \subseteq DOMAIN sql.enrollments
    /\ last.status \in {200, 400, 404}

\* the student service alone: every request is served by one process
NextStudent ==
    \/ \E request \in Requests : Enroll(request)
    \/ \E enrollment_id \in ReqEnrollmentIds : Drop(enrollment_id)
    \/ BrowseCourses

SpecStudent == Init /\ [][NextStudent]_vars

(***************************************************************************)
(* The admin service next to the auth service: students sign up with the   *)
(* auth process while the admin process is running.                        *)
(***************************************************************************)
\* the ids signup can still hand out: f"student_{uuid.uuid4().hex[:8]}"
NewUserIds == {"student_1a2b3c4d", "student_9f8e7d6c"}
SignupRequests ==
    [username : {"john_doe", "new_user", "other_user"},
     email : {"john@university.edu", "new@university.edu",
              "other@university.edu"}]
AdminRequests ==
    [student_id : ReqUserIds \cup NewUserIds, course_id : ReqCourseIds,
     semester : Semesters]

\* POST /signup of the auth service
Signup(request) ==
    \E user_id \in NewUserIds :
        LET r == signup(DB("auth"), request, user_id)
        IN /\ r.status = 200 => user_id \notin DOMAIN sql.users
           /\ mem' = [mem EXCEPT !["auth"] = r.d.m]
           /\ sql' = r.d.q
           /\ UNCHANGED nextId
           /\ UNCHANGED runner
           /\ last' = Entry("signup", r.about, "-", 0, r.status, r.detail)

\* GET /users of the admin service
GetAllUsers ==
    /\ mem' = [mem EXCEPT !["admin"] = get_all_users(DB("admin")).m]
    /\ UNCHANGED <<sql, nextId>>
    /\ UNCHANGED runner
    /\ last' = Entry("get_all_users", "-", "-", 0, 200, "-")

NextAdmin ==
    \/ \E request \in SignupRequests : Signup(request)
    \/ \E request \in AdminRequests : ForceEnroll(request)
    \/ GetAllUsers
    \/ GetAllCourses

SpecAdmin == Init /\ [][NextAdmin]_vars

(***************************************************************************)
(* The student service over two semesters, started on a file whose two     *)
(* courses have no prerequisites and capacity 2; c1 meets "MWF 9" and c2   *)
(* has any of the schedules below: the duplicate check and the             *)
(* time-conflict check on their inputs.                                    *)
(***************************************************************************)
Terms == {"Fall 2024", "Spring 2025"}
Schedules ==
    { << >>,                                  \* ""
      <<"M", "W", "F", " ", "9">>,            \* "MWF 9"
      <<"M", "W", " ", "1", "0">>,            \* "MW 10"
      <<"T", "T", "h", " ", "9">>,            \* "TTh 9"
      <<"9", " ", "M", "W">>,                 \* "9 MW"
      <<" ", "T", "F", " ", "9">> }           \* " TF 9"
TermRequests == [student_id : UserIds, course_id : CourseIds, semester : Terms]

TermFile(schedule1, schedule2) ==
    [InitialFile EXCEPT !.courses =
        ("c1" :> Course("c1", 2, schedule1, << >>)) @@
        ("c2" :> Course("c2", 2, schedule2, << >>))]

InitTerms ==
    /\ \E schedule2 \in Schedules :
          LET file == TermFile(<<"M", "W", "F", " ", "9">>, schedule2)
          IN sql = file /\ mem = [p \in Procs |-> _load_data(file)]
    /\ nextId = 1
    /\ runner = AllStarted
    /\ last = Entry("start", "-", "-", 0, 200, "-")

NextTerms ==
    \/ \E request \in TermRequests : Enroll(request)
    \/ \E enrollment_id \in ReqEnrollmentIds : Drop(enrollment_id)

SpecTerms == InitTerms /\ [][NextTerms]_vars

(***************************************************************************)
(* The student service started on a file with any of the prerequisite      *)
(* lists and grades below: the prerequisite check on its inputs.  "c0" is  *)
(* a prerequisite id without a course row.  s2 holds a passing grade for   *)
(* both prerequisites; s1 holds for each at most one grade.                *)
(***************************************************************************)
PrereqLists == { <<"c1">>, <<"c1", "c0">>, <<"c0", "c1">> }
NoGrade == [grade |-> "-", status |-> "-"]
GradeChoices ==
    {NoGrade} \cup
    [grade : {"B", "F", "I", "W"}, status : {"submitted"}] \cup
    [grade : {"A"}, status : {"pending"}]
FewGradeChoices ==
    {NoGrade, [grade |-> "D", status |-> "submitted"],
     [grade |-> "F", status |-> "submitted"]}

Grade(id, student_id, course_id, choice) ==
    [id |-> id, student_id |-> student_id, course_id |-> course_id,
     grade |-> choice.grade, status |-> choice.status]

GradeFile(prerequisites, choice1, choice0) ==
    LET passed == [grade |-> "A", status |-> "submitted"]
        all == ("g1" :> Grade("g1", "s1", "c1", choice1)) @@
               ("g2" :> Grade("g2", "s1", "c0", choice0)) @@
               ("g3" :> Grade("g3", "s2", "c1", passed)) @@
               ("g4" :> Grade("g4", "s2", "c0", passed))
    IN [InitialFile EXCEPT
          !.courses["c2"].prerequisites = prerequisites,
          !.grades = [g \in {x \in DOMAIN all : all[x].grade # "-"} |-> all[g]]]

InitGrades ==
    /\ \E prerequisites \in PrereqLists :
       \E choice1 \in GradeChoices, choice0 \in FewGradeChoices :
          LET file == GradeFile(prerequisites, choice1, choice0)
          IN sql = file /\ mem = [p \in Procs |-> _load_data(file)]
    /\ nextId = 1
    /\ runner = AllStarted
    /\ last = Entry("start", "-", "-", 0, 200, "-")

SpecGrades == InitGrades /\ [][NextStudent]_vars

(***************************************************************************)
(* The query operations of the student, faculty and admin services, while  *)
(* the admin service writes Enrollments and counts with ForceEnroll.       *)
(***************************************************************************)
\* process p has answered a query that left it the database d
Answered(p, d) ==
    /\ mem' = [mem EXCEPT ![p] = d.m]
    /\ sql' = d.q
    /\ UNCHANGED nextId

\* GET /courses/{course_id} of the student service
GetCourseDetails(course_id) ==
    LET r == get_course_details(DB("student"), course_id)
    IN /\ Answered("student", r.d)
       /\ UNCHANGED runner
       /\ last' = Entry("get_course_details", "-", course_id, 0,
                     r.status, r.detail)

\* GET /students/{student_id}/schedule of the student service
GetStudentSchedule(student_id, semester) ==
    /\ Answered("student",
                get_student_schedule(DB("student"), student_id, semester))
    /\ UNCHANGED runner
    /\ last' = Entry("get_student_schedule", student_id, "-", 0, 200, "-")

\* GET /courses of the student service, with the store it leaves
BrowseCatalogue ==
    /\ Answered("student", browse_courses(DB("student")))
    /\ UNCHANGED runner
    /\ last' = Entry("browse_courses", "-", "-", 0, 200, "-")

\* GET /faculty/{faculty_id}/courses of the faculty service
GetFacultyCourses ==
    /\ Answered("faculty", get_faculty_courses(DB("faculty")))
    /\ UNCHANGED runner
    /\ last' = Entry("get_faculty_courses", "-", "-", 0, 200, "-")

\* GET /courses/{course_id}/roster of the faculty service
GetCourseRoster(course_id) ==
    LET r == get_course_roster(DB("faculty"), course_id)
    IN /\ Answered("faculty", r.d)
       /\ UNCHANGED runner
       /\ last' = Entry("get_course_roster", "-", course_id, 0,
                     r.status, r.detail)

\* GET /reports/enrollment-stats of the admin service
GetEnrollmentStatistics ==
    /\ Answered("admin", get_enrollment_statistics(DB("admin")))
    /\ UNCHANGED runner
    /\ last' = Entry("get_enrollment_statistics", "-", "-", 0, 200, "-")

NextQueries ==
    \/ \E request \in Requests : ForceEnroll(request)
    \/ \E course_id \in ReqCourseIds : GetCourseDetails(course_id)
    \/ \E student_id \in ReqUserIds, semester \in Semesters :
            GetStudentSchedule(student_id, semester)
    \/ BrowseCatalogue
    \/ GetFacultyCourses
    \/ \E course_id \in ReqCourseIds : GetCourseRoster(course_id)
    \/ GetEnrollmentStatistics

SpecQueries == Init /\ [][NextQueries]_vars

(***************************************************************************)
(* Course administration: the admin service creates and updates courses,   *)
(* the faculty service updates them.  The request bodies are JSON objects  *)
(* with any of the fields below.                                           *)
(***************************************************************************)
NewCourseIds == {"c3"}             \* the ids create_course can still hand out
CapacityValues == {0, 2}
CourseData ==
    {data \in UNION {[K -> {0, 1, 2}] :
                         K \in SUBSET {"capacity", "enrolled_count"}} :
        /\ "capacity" \in DOMAIN data => data.capacity \in CapacityValues
        /\ "enrolled_count" \in DOMAIN data => data.enrolled_count = 1}

\* POST /courses of the admin service
CreateCourse(capacity) ==
    \E course_id \in NewCourseIds :
        LET r == create_course(DB("admin"), course_id,
                     [capacity |-> capacity,
                      schedule |-> <<"T", "T", "h", " ", "9">>,
                      prerequisites |-> << >>])
        IN /\ course_id \notin DOMAIN sql.courses
           /\ Answered("admin", r.d)
           /\ UNCHANGED runner
           /\ last' = Entry("create_course", "-", course_id, 0,
                         r.status, r.detail)

\* PUT /courses/{course_id} of the admin service
UpdateCourse(course_id, course_data) ==
    LET r == update_course(DB("admin"), course_id, course_data)
    IN /\ Answered("admin", r.d)
       /\ UNCHANGED runner
       /\ last' = Entry("update_course", "-", course_id, 0,
                     r.status, r.detail)

\* PUT /courses/{course_id}/update of the faculty service
RequestCourseUpdate(course_id, updates) ==
    LET r == request_course_update(DB("faculty"), course_id, updates)
    IN /\ Answered("faculty", r.d)
       /\ UNCHANGED runner
       /\ last' = Entry("request_course_update", "-", course_id, 0,
                     r.status, r.detail)

\* the courses of the update requests: c1, the new course, and no course
UpdatedCourseIds == {"c1", "cx"} \cup NewCourseIds

NextCourses ==
    \/ \E capacity \in CapacityValues : CreateCourse(capacity)
    \/ \E course_id \in UpdatedCourseIds :
       \E course_data \in CourseData : UpdateCourse(course_id, course_data)
    \/ \E course_id \in UpdatedCourseIds :
       \E updates \in CourseData : RequestCourseUpdate(course_id, updates)
    \/ GetAllCourses

SpecCourses == Init /\ [][NextCourses]_vars

(***************************************************************************)
(* The student service on a store whose writes can fail.                   *)
(***************************************************************************)
EnrollWrites == {"add_enrollment", "_save_course"}
DropWrites == {"_save_course", "_save_enrollment"}

\* POST /enroll passes the checks, then the write `failing` raises
EnrollFails(request, failing) ==
    LET r == enroll_in_course_fails(DB("student"), request, nextId, failing)
    IN /\ r.status = 500
       /\ nextId <= MaxEnr
       /\ Served("student", r)
       /\ UNCHANGED runner
       /\ last' = Entry("enroll", request.student_id,
                     request.course_id, 0, r.status, r.detail)

\* DELETE /enroll/{enrollment_id} finds the Enrollment, then the write
\* `failing` raises
DropFails(enrollment_id, failing) ==
    LET r == drop_course_fails(DB("student"), enrollment_id, failing)
    IN /\ r.status = 500
       /\ mem' = [mem EXCEPT !["student"] = r.d.m]
       /\ sql' = r.d.q
       /\ UNCHANGED nextId
       /\ UNCHANGED runner
       /\ last' = Entry("drop", "-", "-", enrollment_id,
                            r.status, r.detail)

NextFaulty ==
    \/ \E request \in Requests : Enroll(request)
    \/ \E enrollment_id \in ReqEnrollmentIds : Drop(enrollment_id)
    \/ BrowseCourses
    \/ \E request \in Requests, failing \in EnrollWrites :
            EnrollFails(request, failing)
    \/ \E enrollment_id \in ReqEnrollmentIds, failing \in DropWrites :
            DropFails(enrollment_id, failing)

SpecFaulty == Init /\ [][NextFaulty]_vars

(***************************************************************************)
(* Notions the properties share                                            *)
(***************************************************************************)
\* the enrollments of a dictionary that count for course c
EnrolledIn(enrollments, c) ==
    {i \in DOMAIN enrollments :
        enrollments[i].course_id = c /\ enrollments[i].status = "enrolled"}

\* the counter invariant of the Record Store
CounterInvariant(q) ==
    \A c \in DOMAIN q.courses :
        q.courses[c].enrolled_count = Cardinality(EnrolledIn(q.enrollments, c))

(***************************************************************************)
(* C1: for every Course, after any sequence of successful Enroll, Drop and *)
(* ForceEnroll operations, enrolled_count equals the number of Enrollments *)
(* of that course with status "enrolled".                                  *)
(* Stated on the Record Store; violated already by the student service     *)
(* alone: a second Drop of the same Enrollment decrements again.           *)
(***************************************************************************)
C1_CounterMatchesEnrollments == CounterInvariant(sql)

\* what a look-up of course c by a process with database d returns:
\* its cached object, else the row of the file
Known(d, c) == c \in (DOMAIN d.m.courses) \cup (DOMAIN d.q.courses)

ViewCourse(d, c) ==
    IF c \in DOMAIN d.m.courses THEN d.m.courses[c] ELSE d.q.courses[c]

(***************************************************************************)
(* C2: two Enroll calls by different students, issued concurrently to the  *)
(* student service for a course with exactly one remaining seat: exactly   *)
(* one succeeds, the other fails with "Course is full"; no successful      *)
(* Enroll leaves enrolled_count above capacity.                            *)
(* The event loop serves the two handlers one after the other, in either   *)
(* order (r1 before r2 and r2 before r1 are both quantified over); both    *)
(* requests are admissible on their own.                                   *)
(***************************************************************************)
C2_OneSeatExactlyOneEnrolls ==
    /\ \A r1 \in Requests, r2 \in Requests :
        LET d == DB("student")
            c == r1.course_id
            first == enroll_in_course(d, r1, nextId)
            alone == enroll_in_course(d, r2, nextId)
            second == enroll_in_course(first.d, r2, nextId + 1)
        IN ( /\ r2.course_id = c
             /\ r1.student_id # r2.student_id
             /\ Known(d, c)
             /\ ViewCourse(d, c).enrolled_count = ViewCourse(d, c).capacity - 1
             /\ first.status = 200
             /\ alone.status = 200 )
           => /\ second.status = 400
              /\ second.detail = "Course is full"
              /\ second.d = first.d
              /\ DOMAIN second.d.q.enrollments =
                     (DOMAIN sql.enrollments) \cup {nextId}
              /\ ViewCourse(second.d, c).enrolled_count =
                     ViewCourse(d, c).capacity
    /\ \A r \in Requests :
        LET res == enroll_in_course(DB("student"), r, nextId)
        IN res.status = 200 =>
              ViewCourse(res.d, r.course_id).enrolled_count
                  <= ViewCourse(res.d, r.course_id).capacity

\* the loser has just been answered "Course is full"; the seat went to the
\* other student in the enrollment created last
C2_Witness ==
    /\ last.op = "enroll"
    /\ last.status = 400
    /\ last.detail = "Course is full"
    /\ (nextId - 1) \in DOMAIN mem["student"].enrollments
    /\ LET e == mem["student"].enrollments[nextId - 1]
           course == mem["student"].courses[last.course_id]
       IN /\ e.course_id = last.course_id
          /\ e.student_id # last.student_id
          /\ e.status = "enrolled"
          /\ course.enrolled_count = course.capacity
          /\ Cardinality(EnrolledIn(mem["student"].enrollments,
                                    last.course_id)) = 1

(***************************************************************************)
(* C3: Enroll, Drop and ForceEnroll on the same course, issued to the      *)
(* student service and to the admin service, lose no update: every         *)
(* committed increment or decrement shows in the stored enrolled_count,    *)
(* i.e. each successful operation moves the stored counter by one from the *)
(* value stored before it (a Drop to max(0, stored - 1)).                  *)
(***************************************************************************)
C3_Step ==
    /\ (last'.op \in {"enroll", "force"} /\ last'.status = 200) =>
          sql'.courses[last'.course_id].enrolled_count =
              sql.courses[last'.course_id].enrolled_count + 1
    /\ (last'.op = "drop" /\ last'.status = 200) =>
          LET c == sql.enrollments[last'.enrollment_id].course_id
          IN c \in DOMAIN sql.courses =>
                sql'.courses[c].enrolled_count =
                    Max(0, sql.courses[c].enrolled_count - 1)

C3_NoLostUpdate == [][C3_Step]_vars

(***************************************************************************)
(* The conditions of section 4.1, stated on the records a process with     *)
(* database d looks up (student s, course c, semester sem)                 *)
(***************************************************************************)
StudentExists(d, s) == s \in (DOMAIN d.m.users) \cup (DOMAIN d.q.users)

HoldsEnrolled(d, s, c, sem) ==
    \E i \in DOMAIN d.m.enrollments :
        d.m.enrollments[i] = [id |-> i, student_id |-> s, course_id |-> c,
                              semester |-> sem, status |-> "enrolled"]

SeatsTaken(d, c) == ViewCourse(d, c).enrolled_count >= ViewCourse(d, c).capacity

HasCompleted(d, s, p) ==
    \E g \in DOMAIN d.m.grades :
        /\ d.m.grades[g].student_id = s
        /\ d.m.grades[g].course_id = p
        /\ d.m.grades[g].status = "submitted"
        /\ d.m.grades[g].grade \in {"A", "B", "C", "D"}

LacksPrerequisite(d, s, c) ==
    \E k \in 1..Len(ViewCourse(d, c).prerequisites) :
        ~HasCompleted(d, s, ViewCourse(d, c).prerequisites[k])

HasScheduleConflict(d, s, c, sem) ==
    \E i \in DOMAIN d.m.enrollments :
        /\ d.m.enrollments[i].student_id = s
        /\ d.m.enrollments[i].semester = sem
        /\ d.m.enrollments[i].status = "enrolled"
        /\ Known(d, d.m.enrollments[i].course_id)
        /\ has_time_conflict(ViewCourse(d, c).schedule,
               ViewCourse(d, d.m.enrollments[i].course_id).schedule)

\* an Enroll response res leaves the enrollments and every enrolled_count
\* as they are in the current state
NothingEnrolled(res) ==
    /\ res.d.q = sql
    /\ res.d.m.enrollments = mem["student"].enrollments
    /\ \A c \in CourseIds :
          Known(DB("student"), c) =>
             /\ Known(res.d, c)
             /\ ViewCourse(res.d, c) = ViewCourse(DB("student"), c)

EnrollErrors ==
    {<<404, "Course not found">>, <<404, "Student not found">>,
     <<400, "Already enrolled in this course">>, <<400, "Course is full">>,
     <<400, "Prerequisite not met">>, <<400, "Time conflict">>}

(***************************************************************************)
(* C4: an Enroll that fails any check (CourseNotFound, StudentNotFound,    *)
(* AlreadyEnrolled, CourseFull, PrerequisiteNotMet, ScheduleConflict)      *)
(* leaves the set of Enrollments and every Course's enrolled_count as they *)
(* were before the call.                                                   *)
(***************************************************************************)
C4_FailedEnrollChangesNothing ==
    \A r \in Requests :
        LET res == enroll_in_course(DB("student"), r, nextId)
        IN res.status # 200 =>
              /\ <<res.status, res.detail>> \in EnrollErrors
              /\ res.enrollment_id = 0
              /\ NothingEnrolled(res)

\* an Enroll has just been refused by the last of the checks, with
\* enrollments stored
C4_Witness ==
    /\ last.op = "enroll"
    /\ last.status = 400
    /\ last.detail = "Time conflict"
    /\ sql.enrollments # << >>
    /\ ~HoldsEnrolled(DB("student"), last.student_id, last.course_id,
                      "Fall 2024")
    /\ CounterInvariant(sql)

(***************************************************************************)
(* C5 as claimed: Enroll into a course whose enrolled_count is equal to or *)
(* greater than its capacity fails with CourseFull and does not change     *)
(* enrolled_count (for every request of an existing student).              *)
(***************************************************************************)
C5_FullCourseAlwaysCourseFull ==
    \A r \in Requests :
        LET d == DB("student")
            res == enroll_in_course(d, r, nextId)
        IN ( /\ Known(d, r.course_id)
             /\ StudentExists(d, r.student_id)
             /\ SeatsTaken(d, r.course_id) )
           => /\ res.status = 400
              /\ res.detail = "Course is full"
              /\ NothingEnrolled(res)

(***************************************************************************)
(* C5 amended: Enroll by an existing student who does not already hold an  *)
(* enrolled Enrollment for that course and semester, into a course whose   *)
(* enrolled_count is equal to or greater than its capacity, fails with     *)
(* CourseFull and does not change enrolled_count.                          *)
(***************************************************************************)
C5_FullCourseRefused ==
    \A r \in Requests :
        LET d == DB("student")
            res == enroll_in_course(d, r, nextId)
        IN ( /\ Known(d, r.course_id)
             /\ StudentExists(d, r.student_id)
             /\ ~HoldsEnrolled(d, r.student_id, r.course_id, r.semester)
             /\ SeatsTaken(d, r.course_id) )
           => /\ res.status = 400
              /\ res.detail = "Course is full"
              /\ NothingEnrolled(res)

\* refused as full, the count the service holds being above the capacity
C5_Witness ==
    /\ last.op = "enroll"
    /\ last.status = 400
    /\ last.detail = "Course is full"
    /\ mem["student"].courses[last.course_id].enrolled_count >
           mem["student"].courses[last.course_id].capacity

(***************************************************************************)
(* C6: Enroll by a student who lacks a completed grade (submitted, A to D) *)
(* for at least one prerequisite of the course, and who passes the         *)
(* duplicate and capacity checks, fails with PrerequisiteNotMet and        *)
(* creates no Enrollment.                                                  *)
(***************************************************************************)
C6_UnmetPrerequisiteRefused ==
    \A r \in Requests :
        LET d == DB("student")
            res == enroll_in_course(d, r, nextId)
        IN ( /\ Known(d, r.course_id)
             /\ StudentExists(d, r.student_id)
             /\ ~HoldsEnrolled(d, r.student_id, r.course_id, r.semester)
             /\ ~SeatsTaken(d, r.course_id)
             /\ LacksPrerequisite(d, r.student_id, r.course_id) )
           => /\ res.status = 400
              /\ res.detail = "Prerequisite not met"
              /\ res.d.q.enrollments = sql.enrollments
              /\ res.d.m.enrollments = mem["student"].enrollments

\* refused for the prerequisite, in a course with a free seat
C6_Witness ==
    /\ last.op = "enroll"
    /\ last.status = 400
    /\ last.detail = "Prerequisite not met"
    /\ ~SeatsTaken(DB("student"), last.course_id)
    /\ LacksPrerequisite(DB("student"), last.student_id, last.course_id)
    /\ \A i \in DOMAIN sql.enrollments :
          sql.enrollments[i].student_id = last.student_id =>
             sql.enrollments[i].course_id # last.course_id

(***************************************************************************)
(* C7: when a request violates several checks at once, the error reported  *)
(* is that of the earliest violated check in the order duplicate,          *)
(* capacity, prerequisites, schedule; a full course yields CourseFull      *)
(* whether or not a prerequisite is met.                                   *)
(***************************************************************************)
C7_EarliestCheckReported ==
    \A r \in Requests :
        LET d == DB("student")
            res == enroll_in_course(d, r, nextId)
            dup == HoldsEnrolled(d, r.student_id, r.course_id, r.semester)
            full == SeatsTaken(d, r.course_id)
            lacks == LacksPrerequisite(d, r.student_id, r.course_id)
            clash == HasScheduleConflict(d, r.student_id, r.course_id,
                                         r.semester)
        IN (Known(d, r.course_id) /\ StudentExists(d, r.student_id)) =>
              res.detail =
                 IF dup THEN "Already enrolled in this course"
                 ELSE IF full THEN "Course is full"
                 ELSE IF lacks THEN "Prerequisite not met"
                 ELSE IF clash THEN "Time conflict"
                 ELSE "Successfully enrolled"

\* the course was full and the prerequisite unmet: CourseFull was reported
C7_Witness ==
    /\ last.op = "enroll"
    /\ last.detail = "Course is full"
    /\ SeatsTaken(DB("student"), last.course_id)
    /\ LacksPrerequisite(DB("student"), last.student_id, last.course_id)

(***************************************************************************)
(* C8 as claimed: for the same (student, course, semester), a successful   *)
(* Enroll, then Drop of that enrollment, then Enroll again: the second     *)
(* Enroll succeeds and afterwards enrolled_count equals its value from     *)
(* before the first Enroll.                                                *)
(***************************************************************************)
C8_ReenrollRestoresCountBeforeFirst ==
    \A r \in Requests :
        LET d == DB("student")
            first == enroll_in_course(d, r, nextId)
            dropped == drop_course(first.d, first.enrollment_id)
            again == enroll_in_course(dropped.d, r, nextId + 1)
        IN first.status = 200 =>
              /\ again.status = 200
              /\ ViewCourse(again.d, r.course_id).enrolled_count =
                     ViewCourse(d, r.course_id).enrolled_count

(***************************************************************************)
(* C8 amended: for the same (student, course, semester), a successful      *)
(* Enroll, then Drop of that enrollment, then Enroll again, served by the  *)
(* student service with no other request in between: the second Enroll     *)
(* succeeds and afterwards enrolled_count equals its value after the first *)
(* Enroll, i.e. one more than before the first Enroll; the first           *)
(* Enrollment is dropped, the second enrolled.                             *)
(***************************************************************************)
C8_ReenrollAfterDrop ==
    \A r \in Requests :
        LET d == DB("student")
            first == enroll_in_course(d, r, nextId)
            dropped == drop_course(first.d, first.enrollment_id)
            again == enroll_in_course(dropped.d, r, nextId + 1)
        IN first.status = 200 =>
              /\ dropped.status = 200
              /\ again.status = 200
              /\ again.enrollment_id = nextId + 1
              /\ ViewCourse(again.d, r.course_id).enrolled_count =
                     ViewCourse(d, r.course_id).enrolled_count + 1
              /\ ViewCourse(again.d, r.course_id).enrolled_count =
                     ViewCourse(first.d, r.course_id).enrolled_count
              /\ again.d.q.courses[r.course_id] =
                     ViewCourse(again.d, r.course_id)
              /\ again.d.q.enrollments[nextId].status = "dropped"
              /\ again.d.q.enrollments[nextId + 1].status = "enrolled"

\* the second Enroll has just succeeded: an earlier Enrollment of the same
\* student and course, made by the student service, is dropped
C8_Witness ==
    /\ last.op = "enroll"
    /\ last.status = 200
    /\ \E i \in DOMAIN mem["student"].enrollments :
          /\ i < last.enrollment_id
          /\ mem["student"].enrollments[i].student_id = last.student_id
          /\ mem["student"].enrollments[i].course_id = last.course_id
          /\ mem["student"].enrollments[i].status = "dropped"
    /\ mem["student"].courses[last.course_id].enrolled_count = 1

(***************************************************************************)
(* C9: ForceEnroll for a student and a course the admin service holds      *)
(* succeeds even when enrolled_count is equal to the capacity or already   *)
(* above it, and increments enrolled_count by 1, so that it exceeds the    *)
(* capacity; nothing rejects the override.                                 *)
(* enrolled_count is the count of the Course the admin service holds; the  *)
(* incremented value is also the one stored.                               *)
(***************************************************************************)
C9_ForceEnrollPastCapacity ==
    \A r \in Requests :
        LET d == DB("admin")
            res == force_enrollment(d, r, nextId)
        IN ( /\ r.student_id \in DOMAIN d.m.users
             /\ r.course_id \in DOMAIN d.m.courses
             /\ d.m.courses[r.course_id].enrolled_count >=
                    d.m.courses[r.course_id].capacity )
           => /\ res.status = 200
              /\ res.enrollment_id = nextId
              /\ res.d.m.courses[r.course_id].enrolled_count =
                     d.m.courses[r.course_id].enrolled_count + 1
              /\ res.d.m.courses[r.course_id].enrolled_count >
                     res.d.m.courses[r.course_id].capacity
              /\ res.d.q.courses[r.course_id] = res.d.m.courses[r.course_id]

\* an override has just succeeded and the count is above the capacity
C9_Witness ==
    /\ last.op = "force"
    /\ last.status = 200
    /\ mem["admin"].courses[last.course_id].enrolled_count >
           mem["admin"].courses[last.course_id].capacity
    /\ sql.courses[last.course_id].enrolled_count >
           sql.courses[last.course_id].capacity

(***************************************************************************)
(* C10: ForceEnroll bypasses every check of the Conflict Checker: for a    *)
(* student and a course the admin service holds it succeeds, creates a new *)
(* Enrollment with status "enrolled" and increments enrolled_count by 1,   *)
(* even when the student already holds an enrolled Enrollment for the same *)
(* course and semester, lacks a prerequisite, or has a schedule conflict.  *)
(***************************************************************************)
C10_ForceEnrollBypassesChecks ==
    \A r \in Requests :
        LET d == DB("admin")
            res == force_enrollment(d, r, nextId)
        IN ( /\ r.student_id \in DOMAIN d.m.users
             /\ r.course_id \in DOMAIN d.m.courses
             /\ \/ HoldsEnrolled(d, r.student_id, r.course_id, r.semester)
                \/ LacksPrerequisite(d, r.student_id, r.course_id)
                \/ HasScheduleConflict(d, r.student_id, r.course_id,
                                       r.semester) )
           => /\ res.status = 200
              /\ res.enrollment_id = nextId
              /\ nextId \notin DOMAIN d.q.enrollments
              /\ res.d.q.enrollments =
                     Put(d.q.enrollments, nextId,
                         [id |-> nextId, student_id |-> r.student_id,
                          course_id |-> r.course_id, semester |-> r.semester,
                          status |-> "enrolled"])
              /\ res.d.m.enrollments[nextId] = res.d.q.enrollments[nextId]
              /\ res.d.m.courses[r.course_id].enrolled_count =
                     d.m.courses[r.course_id].enrolled_count + 1
              /\ res.d.q.courses[r.course_id] = res.d.m.courses[r.course_id]

\* an override has just succeeded for a student who already held an
\* enrolled Enrollment of that course
C10_Witness ==
    /\ last.op = "force"
    /\ last.status = 200
    /\ \E i \in DOMAIN mem["admin"].enrollments :
          /\ i < last.enrollment_id
          /\ mem["admin"].enrollments[i].student_id = last.student_id
          /\ mem["admin"].enrollments[i].course_id = last.course_id
          /\ mem["admin"].enrollments[i].status = "enrolled"
    /\ sql.enrollments[last.enrollment_id].status = "enrolled"

(***************************************************************************)
(* C11: ForceEnroll answers 404 exactly when the student or the course has *)
(* no record in the Record Store, and then creates nothing and changes no  *)
(* count; whenever both have a record in the store, whichever service      *)
(* wrote it, ForceEnroll answers 200 with the id of the new Enrollment.    *)
(***************************************************************************)
C11_ForceEnrollLooksInStore ==
    \A r \in AdminRequests :
        LET d == DB("admin")
            res == force_enrollment(d, r, nextId)
            missing == \/ r.student_id \notin DOMAIN sql.users
                       \/ r.course_id \notin DOMAIN sql.courses
        IN /\ (res.status = 404) <=> missing
           /\ res.status = 404 => res.d = d
           /\ ~missing => res.status = 200 /\ res.enrollment_id = nextId

(***************************************************************************)
(* C12: a successful Enroll creates exactly one new Enrollment, with the   *)
(* student_id, course_id and semester of the request and status            *)
(* "enrolled", raises the enrolled_count of that course by exactly 1,      *)
(* returns the id of the new Enrollment, and changes no other Enrollment   *)
(* and no other Course.  (Records as the student service looks them up.)   *)
(***************************************************************************)
C12_SuccessfulEnrollAddsOne ==
    \A r \in Requests :
        LET d == DB("student")
            res == enroll_in_course(d, r, nextId)
            created == [id |-> nextId, student_id |-> r.student_id,
                        course_id |-> r.course_id, semester |-> r.semester,
                        status |-> "enrolled"]
            before == ViewCourse(d, r.course_id)
        IN res.status = 200 =>
            /\ res.enrollment_id = nextId
            /\ nextId \notin (DOMAIN sql.enrollments) \cup (DOMAIN d.m.enrollments)
            /\ res.d.q.enrollments = Put(sql.enrollments, nextId, created)
            /\ res.d.m.enrollments = Put(d.m.enrollments, nextId, created)
            /\ ViewCourse(res.d, r.course_id) =
                    [before EXCEPT !.enrolled_count = before.enrolled_count + 1]
            /\ res.d.q.courses[r.course_id] = ViewCourse(res.d, r.course_id)
            /\ DOMAIN res.d.q.courses = DOMAIN sql.courses
            /\ \A o \in CourseIds \ {r.course_id} :
                    /\ res.d.q.courses[o] = sql.courses[o]
                    /\ ViewCourse(res.d, o) = ViewCourse(d, o)

\* the second Enrollment has just been created by Enroll; the first one
\* is still what it was
C12_Witness ==
    /\ last.op = "enroll" /\ last.status = 200 /\ last.enrollment_id = 2
    /\ sql.enrollments[2] = [id |-> 2, student_id |-> last.student_id,
                              course_id |-> last.course_id,
                              semester |-> "Fall 2024", status |-> "enrolled"]
    /\ 1 \in DOMAIN sql.enrollments
    /\ sql.courses[last.course_id].enrolled_count >= 1

(***************************************************************************)
(* C13: Enroll for a course that does not exist is answered 404 "Course    *)
(* not found", also when the student does not exist either; for an         *)
(* existing course and a student that does not exist it is answered 404    *)
(* "Student not found"; AlreadyEnrolled, CourseFull, PrerequisiteNotMet    *)
(* and ScheduleConflict are answered 400.                                  *)
(***************************************************************************)
C13_EnrollErrorStatuses ==
    \A r \in Requests :
        LET d == DB("student")
            res == enroll_in_course(d, r, nextId)
        IN /\ ~Known(d, r.course_id) =>
                res.status = 404 /\ res.detail = "Course not found"
           /\ Known(d, r.course_id) /\ ~StudentExists(d, r.student_id) =>
                res.status = 404 /\ res.detail = "Student not found"
           /\ res.detail \in {"Already enrolled in this course",
                               "Course is full", "Prerequisite not met",
                               "Time conflict"} => res.status = 400
           /\ res.status = 400 =>
                /\ Known(d, r.course_id) /\ StudentExists(d, r.student_id)
                /\ res.detail \in {"Already enrolled in this course",
                                    "Course is full", "Prerequisite not met",
                                    "Time conflict"}

\* neither the course nor the student of the request exists
C13_Witness ==
    /\ last.op = "enroll" /\ last.status = 404
    /\ last.detail = "Course not found"
    /\ last.course_id \notin DOMAIN sql.courses
    /\ last.student_id \notin DOMAIN sql.users
    /\ sql.enrollments # << >>

(***************************************************************************)
(* C14: when persisting the new Enrollment or the updated Course fails     *)
(* during an Enroll that passed all checks, the operation fails as a whole *)
(* and nothing of it is retained, neither in the store nor in the records  *)
(* the student service holds in memory.                                    *)
(***************************************************************************)
C14_Step ==
    (last'.op = "enroll" /\ last'.status = 500) =>
        /\ sql' = sql
        /\ mem'["student"].enrollments = mem["student"].enrollments
        /\ \A c \in CourseIds :
                ViewCourse([m |-> mem'["student"], q |-> sql'], c) =
                    ViewCourse(DB("student"), c)

C14_FailedPersistLeavesNothing == [][C14_Step]_vars

(***************************************************************************)
(* C15: a successful Drop of an Enrollment with status "enrolled" sets its *)
(* status to "dropped" and the enrolled_count of its Course to             *)
(* max(0, count - 1); no other Enrollment and no other Course changes.     *)
(* (Records as the student service looks them up.)                         *)
(***************************************************************************)
C15_DropOfEnrolled ==
    \A id \in ReqEnrollmentIds :
        LET d == DB("student")
            res == drop_course(d, id)
        IN (id \in DOMAIN d.m.enrollments
                /\ d.m.enrollments[id].status = "enrolled") =>
           LET e == d.m.enrollments[id]
               c == e.course_id
               before == ViewCourse(d, c)
               after == IF before.enrolled_count >= 1
                        THEN before.enrolled_count - 1 ELSE 0
               dropped == [id |-> id, student_id |-> e.student_id,
                           course_id |-> c, semester |-> e.semester,
                           status |-> "dropped"]
           IN /\ res.status = 200
              /\ res.d.m.enrollments = Put(d.m.enrollments, id, dropped)
              /\ res.d.q.enrollments = Put(sql.enrollments, id, dropped)
              /\ ViewCourse(res.d, c) =
                     [before EXCEPT !.enrolled_count = after]
              /\ res.d.q.courses[c] = ViewCourse(res.d, c)
              /\ DOMAIN res.d.q.courses = DOMAIN sql.courses
              /\ \A o \in CourseIds \ {c} :
                     /\ res.d.q.courses[o] = sql.courses[o]
                     /\ ViewCourse(res.d, o) = ViewCourse(d, o)

\* Enrollment 2 has just been dropped, Enrollment 1 of another course is
\* still enrolled and counted
C15_Witness ==
    /\ last.op = "drop" /\ last.status = 200 /\ last.enrollment_id = 2
    /\ 2 \in DOMAIN sql.enrollments /\ sql.enrollments[2].status = "dropped"
    /\ sql.enrollments[1].status = "enrolled"
    /\ sql.enrollments[1].course_id # sql.enrollments[2].course_id
    /\ sql.courses[sql.enrollments[1].course_id].enrolled_count = 1
    /\ sql.courses[sql.enrollments[2].course_id].enrolled_count = 0

(***************************************************************************)
(* C16: Drop with an id for which no Enrollment exists is answered 404     *)
(* "Enrollment not found" and changes nothing.                             *)
(***************************************************************************)
C16_DropOfUnknownId ==
    \A id \in ReqEnrollmentIds :
        LET d == DB("student")
            res == drop_course(d, id)
        IN id \notin DOMAIN sql.enrollments =>
            /\ res.status = 404
            /\ res.detail = "Enrollment not found"
            /\ res.d = d

\* a Drop of an id no Enrollment has, while other Enrollments exist
C16_Witness ==
    /\ last.op = "drop" /\ last.status = 404
    /\ last.detail = "Enrollment not found"
    /\ last.enrollment_id \notin DOMAIN sql.enrollments
    /\ \E id \in DOMAIN sql.enrollments : sql.enrollments[id].status = "enrolled"

(***************************************************************************)
(* C17: Drop of an Enrollment whose status is already "dropped" is not     *)
(* refused: it is answered with success, the status stays "dropped", and   *)
(* the enrolled_count of the Course is decremented by 1 once more, floored *)
(* at 0.  (Records as the student service looks them up.)                  *)
(***************************************************************************)
C17_DropOfDropped ==
    \A id \in ReqEnrollmentIds :
        LET d == DB("student")
            res == drop_course(d, id)
        IN (id \in DOMAIN d.m.enrollments
                /\ d.m.enrollments[id].status = "dropped") =>
           LET c == d.m.enrollments[id].course_id
               before == ViewCourse(d, c).enrolled_count
           IN /\ res.status = 200
              /\ res.d.m.enrollments = d.m.enrollments
              /\ res.d.q.enrollments[id].status = "dropped"
              /\ ViewCourse(res.d, c).enrolled_count =
                     (IF before >= 1 THEN before - 1 ELSE 0)
              /\ res.d.q.courses[c].enrolled_count =
                     (IF before >= 1 THEN before - 1 ELSE 0)

\* Enrollment i was dropped before the same student enrolled again in the
\* same course (as j, which the duplicate check allowed); the Drop of i
\* served last was therefore a repeated one, and it has taken the seat
\* of j off the count
C17_Witness ==
    /\ last.op = "drop" /\ last.status = 200
    /\ \E i, j \in DOMAIN mem["student"].enrollments :
        LET ei == mem["student"].enrollments[i]
            ej == mem["student"].enrollments[j]
        IN /\ i = last.enrollment_id /\ i < j
           /\ ei.status = "dropped" /\ ej.status = "enrolled"
           /\ ei.student_id = ej.student_id /\ ei.course_id = ej.course_id
           /\ ei.semester = ej.semester
           /\ mem["student"].courses[ej.course_id].enrolled_count = 0
           /\ sql.courses[ej.course_id].enrolled_count = 0

(***************************************************************************)
(* C18: Drop applies its two updates as one unit: when persisting either   *)
(* of them fails, no state is retained in which the count was decremented  *)
(* while the Enrollment is still "enrolled", or the Enrollment is          *)
(* "dropped" while the count was not decremented -- neither in the store   *)
(* nor in the records of the student service.                              *)
(***************************************************************************)
C18_Step ==
    (last'.op = "drop" /\ last'.status = 500) =>
        LET id == last'.enrollment_id
            c == mem["student"].enrollments[id].course_id
        IN (mem["student"].enrollments[id].status = "enrolled"
                /\ mem["student"].courses[c].enrolled_count >= 1
                /\ sql.enrollments[id].status = "enrolled"
                /\ sql.courses[c].enrolled_count >= 1) =>
           /\ (sql'.courses[c].enrolled_count < sql.courses[c].enrolled_count)
                  <=> (sql'.enrollments[id].status = "dropped")
           /\ (mem'["student"].courses[c].enrolled_count
                    < mem["student"].courses[c].enrolled_count)
                  <=> (mem'["student"].enrollments[id].status = "dropped")

C18_FailedDropIsAllOrNothing == [][C18_Step]_vars

(***************************************************************************)
(* C19: the status of an Enrollment only moves from "enrolled" to          *)
(* "dropped": a "dropped" Enrollment never becomes "enrolled" again, and   *)
(* no operation deletes an Enrollment -- the set of Enrollment ids only    *)
(* grows, in the store and in the records of every service.                *)
(***************************************************************************)
EnrollmentsOnlyAdvance(old, new) ==
    \A id \in DOMAIN old :
        /\ id \in DOMAIN new
        /\ new[id].student_id = old[id].student_id
        /\ new[id].course_id = old[id].course_id
        /\ new[id].semester = old[id].semester
        /\ new[id].status # old[id].status =>
                old[id].status = "enrolled" /\ new[id].status = "dropped"

C19_Step ==
    /\ EnrollmentsOnlyAdvance(sql.enrollments, sql'.enrollments)
    /\ \A p \in Procs :
            EnrollmentsOnlyAdvance(mem[p].enrollments, mem'[p].enrollments)

C19_StatusOnlyAdvances == [][C19_Step]_vars

\* a dropped Enrollment has stayed dropped while the same student enrolled
\* in the same course again and that second Enrollment was dropped too
C19_Witness ==
    /\ last.op = "drop" /\ last.status = 200 /\ last.enrollment_id = 2
    /\ DOMAIN sql.enrollments = {1, 2}
    /\ sql.enrollments[1].status = "dropped"
    /\ sql.enrollments[2].status = "dropped"
    /\ sql.enrollments[1].student_id = sql.enrollments[2].student_id
    /\ sql.enrollments[1].course_id = sql.enrollments[2].course_id

(***************************************************************************)
(* C20: starting without any "waitlisted" Enrollment, no operation of any  *)
(* service produces an Enrollment with status "waitlisted".                *)
(***************************************************************************)
NoneWaitlisted(enrollments) ==
    \A id \in DOMAIN enrollments : enrollments[id].status # "waitlisted"

C20_NeverWaitlisted ==
    /\ NoneWaitlisted(sql.enrollments)
    /\ \A p \in Procs : NoneWaitlisted(mem[p].enrollments)
    /\ \A r \in Requests :
           /\ NoneWaitlisted(
                  enroll_in_course(DB("student"), r, nextId).d.q.enrollments)
           /\ NoneWaitlisted(
                  force_enrollment(DB("admin"), r, nextId).d.q.enrollments)

\* Enrollments made by Enroll and by ForceEnroll, one of them dropped
C20_Witness ==
    /\ DOMAIN sql.enrollments = {1, 2}
    /\ DOMAIN mem["student"].enrollments # {}
    /\ DOMAIN mem["admin"].enrollments # {}
    /\ \E id \in DOMAIN sql.enrollments : sql.enrollments[id].status = "dropped"
    /\ \E id \in DOMAIN sql.enrollments : sql.enrollments[id].status = "enrolled"

(***************************************************************************)
(* C21: every lookup of a Course, Enrollment or Grade that Enroll, Drop or *)
(* ForceEnroll performs returns the value of the latest write committed to *)
(* the Record Store, also when another service process committed it.       *)
(***************************************************************************)
C21_LookupsReadLatestWrite ==
    \* the course Enroll looks up (line 58) and the one ForceEnroll
    \* increments (line 222)
    /\ \A c \in DOMAIN sql.courses :
           LET rc == refresh_course_from_db(DB("student"), c)
           IN /\ rc.found /\ rc.course = sql.courses[c]
              /\ c \in DOMAIN mem["admin"].courses
              /\ mem["admin"].courses[c] = sql.courses[c]
    \* the Enrollments Enroll scans (lines 69, 102) and Drop gets (line 138)
    /\ mem["student"].enrollments = sql.enrollments
    \* the Grades Enroll scans (line 86)
    /\ mem["student"].grades = sql.grades

(***************************************************************************)
(* C22: within one service process, once the process has written a record *)
(* (User, Course, Enrollment, Grade) through the store, every later lookup *)
(* of it by that process returns a value at least as new as that write;    *)
(* its cache never serves the value from before the write, also after a    *)
(* refresh-all from the database.                                          *)
(*                                                                         *)
(* As a property of every step: (a) a record the serving process writes to *)
(* the store is, after the step, in its dictionaries with the written      *)
(* value; (b) a record in the dictionaries of any process stays there, and *)
(* when its value changes it changes to the value the store holds at that  *)
(* moment.  The store's values of one record are ordered by commit, so by  *)
(* (b) a cached value is only ever replaced by a newer one.                *)
(***************************************************************************)
Tables == {"users", "courses", "enrollments", "grades"}

\* the process that serves a request
Actor(op) ==
    IF op \in {"enroll", "drop", "browse_courses", "get_course_details",
               "get_student_schedule"} THEN "student"
    ELSE IF op \in {"get_course_roster", "get_faculty_courses"} THEN "faculty"
    ELSE IF op = "signup" THEN "auth" ELSE "admin"

C22_Step ==
    \A t \in Tables :
        /\ \A x \in DOMAIN sql'[t] :
              (x \notin DOMAIN sql[t] \/ sql'[t][x] # sql[t][x]) =>
                  /\ x \in DOMAIN mem'[Actor(last'.op)][t]
                  /\ mem'[Actor(last'.op)][t][x] = sql'[t][x]
        /\ \A p \in Procs : \A x \in DOMAIN mem[p][t] :
              /\ x \in DOMAIN mem'[p][t]
              /\ mem'[p][t][x] # mem[p][t][x] =>
                    x \in DOMAIN sql'[t] /\ mem'[p][t][x] = sql'[t][x]

C22_OwnWritesStayVisible == [][C22_Step]_vars

\* the student service wrote the count of a course (Enrollment 1), the
\* admin service wrote it after that (Enrollment 2), and the student
\* service has just refreshed all courses: it holds the newer count
C22_Witness ==
    /\ last.op = "browse_courses"
    /\ DOMAIN mem["student"].enrollments = {1}
    /\ DOMAIN mem["admin"].enrollments = {2}
    /\ sql.enrollments[1].course_id = sql.enrollments[2].course_id
    /\ sql.courses[sql.enrollments[1].course_id].enrolled_count = 2
    /\ mem["student"].courses = sql.courses

(***************************************************************************)
(* C23: for an existing course and student, Enroll fails with              *)
(* AlreadyEnrolled exactly when an Enrollment with the same student_id,    *)
(* course_id and semester and status "enrolled" exists; a "dropped"        *)
(* Enrollment of the same triple, or an enrolled one of the same course in *)
(* another semester, does not trigger it.                                  *)
(***************************************************************************)
C23_AlreadyEnrolledExactly ==
    \A r \in TermRequests :
        LET res == enroll_in_course(DB("student"), r, nextId)
        IN (res.status = 400 /\ res.detail = "Already enrolled in this course")
            <=> \E i \in DOMAIN sql.enrollments :
                    sql.enrollments[i] =
                        [id |-> i, student_id |-> r.student_id,
                         course_id |-> r.course_id, semester |-> r.semester,
                         status |-> "enrolled"]

\* the student enrolled in the same course has just enrolled in it again
\* for the other semester
C23_Witness ==
    /\ last.op = "enroll" /\ last.status = 200 /\ last.enrollment_id = 2
    /\ sql.enrollments[1].status = "enrolled"
    /\ sql.enrollments[2].status = "enrolled"
    /\ sql.enrollments[1].student_id = sql.enrollments[2].student_id
    /\ sql.enrollments[1].course_id = sql.enrollments[2].course_id
    /\ sql.enrollments[1].semester # sql.enrollments[2].semester

(***************************************************************************)
(* C25: the schedule check fails with ScheduleConflict exactly when the    *)
(* student holds an Enrollment with status "enrolled" in the same semester *)
(* whose course's first whitespace-delimited schedule token shares a       *)
(* character with the first token of the requested course's schedule;      *)
(* dropped Enrollments, other semesters and empty schedules never          *)
(* conflict, and the time of day is not compared.                          *)
(***************************************************************************)
\* the characters of the first whitespace-delimited token of string s
DayLetters(s) ==
    {s[k] : k \in {n \in 1..Len(s) :
                      /\ s[n] # " "
                      /\ \A a \in 1..n : s[a] = " " =>
                             \A b \in 1..a : s[b] = " "}}

\* the courses of the enrolled Enrollments of student s in semester sem
\* that share a day letter with course c
ConflictingCourses(q, s, c, sem) ==
    {q.enrollments[i].course_id : i \in {n \in DOMAIN q.enrollments :
        /\ q.enrollments[n].student_id = s
        /\ q.enrollments[n].semester = sem
        /\ q.enrollments[n].status = "enrolled"
        /\ DayLetters(q.courses[q.enrollments[n].course_id].schedule)
               \cap DayLetters(q.courses[c].schedule) # {}}}

C25_ScheduleConflictExactly ==
    \A r \in TermRequests :
        LET res == enroll_in_course(DB("student"), r, nextId)
            clash == ConflictingCourses(sql, r.student_id, r.course_id,
                                        r.semester)
        IN res.detail \notin {"Already enrolled in this course",
                              "Course is full"} =>
            /\ (res.status = 400 /\ res.detail = "Time conflict")
                    <=> clash # {}
            /\ clash # {} => res.about \in clash
            /\ clash = {} => res.status = 200

\* c1 "MWF 9" and c2 "MW 10" never overlap in time, and Enroll in one has
\* just been refused for the other
C25_Witness ==
    /\ last.op = "enroll" /\ last.status = 400
    /\ last.detail = "Time conflict"
    /\ sql.courses["c1"].schedule = <<"M", "W", "F", " ", "9">>
    /\ sql.courses["c2"].schedule = <<"M", "W", " ", "1", "0">>
    /\ \E i \in DOMAIN sql.enrollments : sql.enrollments[i].status = "dropped"

(***************************************************************************)
(* C24: the prerequisite check passes exactly when for every course id in  *)
(* course.prerequisites the student has a Grade for it with status         *)
(* "submitted" and grade in {A, B, C, D}; a pending grade, a grade F, I or *)
(* W, or a grade of another student does not satisfy a prerequisite; the   *)
(* first unmet prerequisite in list order is the one reported.             *)
(***************************************************************************)
C24_PrerequisiteCheckExactly ==
    \A r \in Requests :
        LET d == DB("student")
            res == enroll_in_course(d, r, nextId)
        IN res.detail \notin {"Course not found", "Student not found",
                              "Already enrolled in this course",
                              "Course is full"} =>
           LET list == sql.courses[r.course_id].prerequisites
               unmet == {k \in 1..Len(list) :
                            ~HasCompleted(d, r.student_id, list[k])}
           IN /\ (res.status = 400 /\ res.detail = "Prerequisite not met")
                    <=> unmet # {}
              /\ unmet # {} =>
                    \E k \in unmet : /\ res.about = list[k]
                                      /\ \A j \in unmet : k <= j

\* s1 has failed c0 and passed c1; Enroll in c2, which requires c1 and
\* then c0, has just been refused, and the refusal names c0
C24_Witness ==
    /\ last.op = "enroll" /\ last.status = 400
    /\ last.detail = "Prerequisite not met"
    /\ last.student_id = "s1" /\ last.course_id = "c2"
    /\ sql.courses["c2"].prerequisites = <<"c1", "c0">>
    /\ "g1" \in DOMAIN sql.grades /\ sql.grades["g1"].grade = "B"
    /\ "g2" \in DOMAIN sql.grades /\ sql.grades["g2"].grade = "F"
    /\ enroll_in_course(DB("student"), [student_id |-> "s1",
           course_id |-> "c2", semester |-> "Fall 2024"], nextId).about = "c0"

(***************************************************************************)
(* C26: capacity is enforced on the normal path: when only Enroll and Drop *)
(* are executed, one at a time, from a state in which every course has     *)
(* enrolled_count <= capacity, then enrolled_count <= capacity holds for   *)
(* every course in every reachable state.                                  *)
(***************************************************************************)
C26_CapacityOnNormalPath ==
    /\ \A c \in DOMAIN sql.courses :
           sql.courses[c].enrolled_count <= sql.courses[c].capacity
    /\ \A c \in DOMAIN mem["student"].courses :
           mem["student"].courses[c].enrolled_count
               <= mem["student"].courses[c].capacity

\* the course is full and an Enroll has just been refused for that
C26_Witness ==
    /\ last.op = "enroll" /\ last.status = 400
    /\ last.detail = "Course is full"
    /\ sql.courses[last.course_id].enrolled_count
           = sql.courses[last.course_id].capacity
    /\ \E i \in DOMAIN sql.enrollments :
           /\ sql.enrollments[i].course_id = last.course_id
           /\ sql.enrollments[i].status = "enrolled"

(***************************************************************************)
(* C27: Conflict and NotFound outcomes are deterministic functions of the  *)
(* state: a failed Enroll, Drop or ForceEnroll repeated with the same      *)
(* arguments, with no change of state in between, fails with the same      *)
(* error again.  The repetition is served on the state the failed request  *)
(* has left.                                                               *)
(***************************************************************************)
SameError(first, again) ==
    /\ again.status = first.status
    /\ again.detail = first.detail
    /\ again.about = first.about

C28_QueriesLeaveStore ==
    /\ browse_courses(DB("student")).q = sql
    /\ \A c \in ReqCourseIds : get_course_details(DB("student"), c).d.q = sql
    /\ \A s \in ReqUserIds, sem \in Semesters :
           get_student_schedule(DB("student"), s, sem).q = sql
    /\ get_faculty_courses(DB("faculty")).q = sql
    /\ \A c \in ReqCourseIds : get_course_roster(DB("faculty"), c).d.q = sql
    /\ get_enrollment_statistics(DB("admin")).q = sql
    /\ get_all_courses(DB("admin")).q = sql
    /\ get_all_users(DB("admin")).q = sql

\* the faculty service has just listed the courses: its dictionary took
\* the counts the admin service wrote, the store kept them
C28_Witness ==
    /\ last.op = "get_faculty_courses"
    /\ mem["faculty"].courses = sql.courses
    /\ mem["student"].courses # sql.courses
    /\ \E c \in DOMAIN sql.courses : sql.courses[c].enrolled_count = 2

(***************************************************************************)
(* C29: after any sequence of Enroll, Drop (repeated Drops of the same     *)
(* Enrollment included) and ForceEnroll, every course has                  *)
(* enrolled_count >= 0.                                                    *)
(***************************************************************************)
C29_CountNeverNegative ==
    /\ \A c \in DOMAIN sql.courses : sql.courses[c].enrolled_count >= 0
    /\ \A p \in Procs : \A c \in DOMAIN mem[p].courses :
           mem[p].courses[c].enrolled_count >= 0

\* two Enrollments of different courses have been dropped and every
\* count is 0; dropping the last one again leaves the counts at 0
C29_Witness ==
    /\ last.op = "drop" /\ last.status = 200
    /\ DOMAIN sql.enrollments = {1, 2}
    /\ sql.enrollments[1].status = "dropped"
    /\ sql.enrollments[2].status = "dropped"
    /\ sql.enrollments[1].course_id # sql.enrollments[2].course_id
    /\ \A c \in DOMAIN sql.courses : sql.courses[c].enrolled_count = 0
    /\ drop_course(DB("student"), last.enrollment_id).d.q.courses = sql.courses

(***************************************************************************)
(* C30: every Course in every reachable state has capacity > 0, also the   *)
(* courses admin create_course creates and the courses admin update_course *)
(* or faculty request_course_update modifies.                              *)
(***************************************************************************)
C30_CapacityPositive ==
    \A c \in DOMAIN sql.courses : sql.courses[c].capacity > 0

(***************************************************************************)
(* C31: an Enrollment created by ForceEnroll in the admin service can      *)
(* afterwards be dropped through DELETE /enroll/{enrollment_id} of the     *)
(* student service: Drop answers "Enrollment not found" only when no       *)
(* Enrollment with that id exists in the Record Store.                     *)
(***************************************************************************)
C31_DropFindsStoredEnrollment ==
    \A id \in ReqEnrollmentIds :
        drop_course(DB("student"), id).status = 404 =>
            id \notin DOMAIN sql.enrollments

(***************************************************************************)
(* The faculty service finalizing grades next to the student service.      *)
(***************************************************************************)
\* database.py 221-234: INSERT OR REPLACE of the row, then the own cache
_save_grade(d, grade) ==
    [m |-> [d.m EXCEPT !.grades = Put(d.m.grades, grade.id, grade)],
     q |-> [d.q EXCEPT !.grades = Put(d.q.grades, grade.id, grade)]]

\* faculty_service.py 117-126: PUT /grades/{grade_id}/submit
finalize_grade(d, grade_id) ==
    IF grade_id \notin DOMAIN d.m.grades
    THEN Response(d, 404, "Grade not found", "-", 0)
    ELSE LET grade == [d.m.grades[grade_id] EXCEPT !.status = "submitted"]
         IN Response(_save_grade(d, grade), 200,
                     "Grade finalized successfully", grade_id, 0)

GradeIds == {"g1", "g2"}
ReqGradeIds == GradeIds \cup {"gx"}        \* "gx" is no grade

\* PUT /grades/{grade_id}/submit of the faculty service
FinalizeGrade(grade_id) ==
    LET r == finalize_grade(DB("faculty"), grade_id)
    IN /\ Served("faculty", r)
       /\ UNCHANGED runner
       /\ last' = Entry("finalize_grade", "-", "-", 0, r.status, r.detail)

NextFinalize ==
    \/ \E request \in Requests : Enroll(request)
    \/ \E enrollment_id \in ReqEnrollmentIds : Drop(enrollment_id)
    \/ \E grade_id \in ReqGradeIds : FinalizeGrade(grade_id)

SpecFinalize == Init /\ [][NextFinalize]_vars

(***************************************************************************)
(* C32: once a Grade with value in {A, B, C, D} for a prerequisite course  *)
(* has been finalized (status "submitted" written to the store) through    *)
(* the faculty service, a later Enroll by that student into a course       *)
(* requiring it no longer fails with "Prerequisite not met" for that       *)
(* prerequisite.                                                           *)
(***************************************************************************)
C32_FinalizedGradeLiftsPrerequisite ==
    \A g \in DOMAIN sql.grades :
        (/\ sql.grades[g].status = "submitted"
         /\ sql.grades[g].grade \in {"A", "B", "C", "D"})
        => \A request \in Requests :
             request.student_id = sql.grades[g].student_id =>
               LET r == enroll_in_course(DB("student"), request, nextId)
               IN ~(/\ r.detail = "Prerequisite not met"
                    /\ r.about = sql.grades[g].course_id)

(***************************************************************************)
(* The services started on an empty database file: __init__ finds no user  *)
(* and writes the sample data.                                             *)
(***************************************************************************)
\* database.py 404-472.  The three sample Enrollments enr1, enr2, enr3 take
\* the ids 1, 2, 3.
_init_sample_data ==
    [users |->
        ("admin1" :> [User("admin1", "admin", "admin@nexus.edu")
                         EXCEPT !.role = "admin"]) @@
        ("faculty1" :> [User("faculty1", "prof_smith", "smith@nexus.edu")
                         EXCEPT !.role = "faculty"]) @@
        ("faculty2" :> [User("faculty2", "prof_jones", "jones@nexus.edu")
                         EXCEPT !.role = "faculty"]) @@
        ("student1" :> User("student1", "john_doe",
                            "john@student.nexus.edu")) @@
        ("student2" :> User("student2", "jane_smith",
                            "jane@student.nexus.edu")),
     courses |->
        ("cs101" :> [Course("cs101", 30,
                        <<"M", "W", "F", " ", "9", ":", "0",
                         "0", "-", "1", "0", ":", "0", "0">>, << >>)
                        EXCEPT !.enrolled_count = 15]) @@
        ("cs201" :> [Course("cs201", 25,
                        <<"T", "T", "h", " ", "1", "1", ":",
                         "0", "0", "-", "1", "2", ":", "3", "0">>, <<"cs101">>)
                        EXCEPT !.enrolled_count = 20]) @@
        ("math101" :> [Course("math101", 40,
                        <<"M", "W", "F", " ", "1", "0", ":",
                         "0", "0", "-", "1", "1", ":", "0", "0">>, << >>)
                        EXCEPT !.enrolled_count = 35]) @@
        ("bus101" :> [Course("bus101", 50,
                        <<"T", "T", "h", " ", "2", ":",
                         "0", "0", "-", "3", ":", "3", "0">>, << >>)
                        EXCEPT !.enrolled_count = 45]),
     enrollments |->
        (1 :> Enrollment(1, "student1", "cs101", "Fall 2024")) @@
        (2 :> Enrollment(2, "student1", "math101", "Fall 2024")) @@
        (3 :> Enrollment(3, "student2", "cs101", "Fall 2024")),
     grades |->
        ("grade1" :> [id |-> "grade1", student_id |-> "student1",
                      course_id |-> "cs101", grade |-> "A",
                      status |-> "submitted"])]

SampleEnrollments == 3             \* enr1, enr2, enr3

\* database.py 9-18 and 164-174: the file is created, filled with the
\* sample data, and every service loads it
InitSample ==
    /\ sql = _init_sample_data
    /\ mem = [p \in Procs |-> _load_data(_init_sample_data)]
    /\ nextId = SampleEnrollments + 1
    /\ runner = AllStarted
    /\ last = Entry("start", "-", "-", 0, 200, "-")

SampleRequests ==
    [student_id : {"student1", "student2"},
     course_id : {"cs101", "cs201"},
     semester : Semesters]

\* the student service on the sample data: the file already holds more
\* Enrollments than MaxEnr, so Enroll answers and Drop drops
NextSample ==
    \/ \E request \in SampleRequests : Enroll(request)
    \/ \E enrollment_id \in 1..(SampleEnrollments + 1) : Drop(enrollment_id)
    \/ BrowseCourses

SpecSample == InitSample /\ [][NextSample]_vars

(***************************************************************************)
(* C33: the initial state written by the sample-data initialisation of an  *)
(* empty database satisfies the counter invariant: for each seeded course, *)
(* enrolled_count equals the number of seeded Enrollments with status      *)
(* "enrolled" for that course.                                             *)
(***************************************************************************)
C33_SampleDataCounts ==
    last.op = "start" => CounterInvariant(sql)

(***************************************************************************)
(* C34: a course update, admin PUT /courses/{course_id} or faculty         *)
(* PUT /courses/{course_id}/update, never changes the course's             *)
(* enrolled_count in the store, whatever fields the request body contains. *)
(***************************************************************************)
C34_UpdateKeepsEnrolledCount ==
    \A course_id \in DOMAIN sql.courses : \A data \in CourseData :
        LET before == sql.courses[course_id].enrolled_count
            a == update_course(DB("admin"), course_id, data)
            f == request_course_update(DB("faculty"), course_id, data)
        IN /\ a.d.q.courses[course_id].enrolled_count = before
           /\ f.d.q.courses[course_id].enrolled_count = before

(***************************************************************************)
(* C35: using only Enroll and Drop (no ForceEnroll), at most one           *)
(* Enrollment with status "enrolled" exists for any (student_id,           *)
(* course_id, semester) in every reachable state.                          *)
(***************************************************************************)
C35_OneEnrolledPerTriple ==
    \A i, j \in DOMAIN sql.enrollments :
        (/\ sql.enrollments[i].student_id = sql.enrollments[j].student_id
         /\ sql.enrollments[i].course_id = sql.enrollments[j].course_id
         /\ sql.enrollments[i].semester = sql.enrollments[j].semester
         /\ sql.enrollments[i].status = "enrolled"
         /\ sql.enrollments[j].status = "enrolled")
        => i = j

\* a student has dropped a course and enrolled in it again for the same
\* semester: two Enrollments of one triple, one of them enrolled
C35_EnrolledAgainAfterDrop ==
    \E i, j \in DOMAIN sql.enrollments :
        /\ i # j
        /\ sql.enrollments[i].student_id = sql.enrollments[j].student_id
        /\ sql.enrollments[i].course_id = sql.enrollments[j].course_id
        /\ sql.enrollments[i].semester = sql.enrollments[j].semester
        /\ sql.enrollments[i].status = "dropped"
        /\ sql.enrollments[j].status = "enrolled"
        /\ last.op = "enroll" /\ last.status = 200

(***************************************************************************)
(* admin_service.delete_course next to the services that enroll.           *)
(***************************************************************************)
\* `del dictionary[key]`
Remove(dictionary, key) ==
    [x \in (DOMAIN dictionary) \ {key} |-> dictionary[x]]

\* database.py 394-402, SQLiteDatabase.delete_course: the row and the
\* cached course are deleted only if the course is still cached
db_delete_course(d, course_id) ==
    IF course_id \in DOMAIN d.m.courses
    THEN [m |-> [d.m EXCEPT !.courses = Remove(d.m.courses, course_id)],
          q |-> [d.q EXCEPT !.courses = Remove(d.q.courses, course_id)]]
    ELSE d

\* admin_service.py 63-81: the course and its enrolled students are looked
\* up in the dictionaries of the admin process; the course is deleted from
\* db.courses before db.delete_course is called
delete_course(d, course_id) ==
    IF course_id \notin DOMAIN d.m.courses
    THEN Response(d, 404, "Course not found", "-", 0)
    ELSE IF EnrolledIn(d.m.enrollments, course_id) # {}
    THEN Response(d, 400, "Cannot delete course with enrolled students",
                  course_id, 0)
    ELSE Response(db_delete_course(
                      [d EXCEPT !.m.courses = Remove(d.m.courses, course_id)],
                      course_id),
                  200, "Course deleted successfully", course_id, 0)

\* DELETE /courses/{course_id} of the admin service
DeleteCourse(course_id) ==
    LET r == delete_course(DB("admin"), course_id)
    IN /\ Served("admin", r)
       /\ UNCHANGED runner
       /\ last' = Entry("delete_course", "-", course_id, 0,
                     r.status, r.detail)

NextDelete ==
    \/ \E request \in Requests : Enroll(request)
    \/ \E enrollment_id \in ReqEnrollmentIds : Drop(enrollment_id)
    \/ \E request \in Requests : ForceEnroll(request)
    \/ \E course_id \in ReqCourseIds : DeleteCourse(course_id)

SpecDelete == Init /\ [][NextDelete]_vars

(***************************************************************************)
(* C36: delete_course is rejected whenever at least one Enrollment with    *)
(* status "enrolled" exists in the store for that course, after any        *)
(* sequence of Enroll, ForceEnroll, Drop and delete_course across the      *)
(* services.                                                               *)
(***************************************************************************)
C36_DeleteRejectedWhileEnrolled ==
    \A course_id \in CourseIds :
        EnrolledIn(sql.enrollments, course_id) # {} =>
            delete_course(DB("admin"), course_id).status # 200

(***************************************************************************)
(* auth_service.login and verify_token.  A token is a string, modelled as  *)
(* the sequence of its characters.                                         *)
(***************************************************************************)
\* the characters of the strings tokens are made of
Chars ==
    ("token" :> <<"t", "o", "k", "e", "n">>) @@
    ("token_" :> <<"t", "o", "k", "e", "n", "_">>) @@
    ("student" :> <<"s", "t", "u", "d", "e", "n", "t">>) @@
    ("s1" :> <<"s", "1">>) @@
    ("s2" :> <<"s", "2">>) @@
    ("sx" :> <<"s", "x">>) @@
    ("student_1a2b3c4d" :> <<"s", "t", "u", "d", "e", "n", "t", "_",
                            "1", "a", "2", "b", "3", "c", "4", "d">>) @@
    ("student_9f8e7d6c" :> <<"s", "t", "u", "d", "e", "n", "t", "_",
                            "9", "f", "8", "e", "7", "d", "6", "c">>) @@
    ("bearer" :> <<"b", "e", "a", "r", "e", "r">>)

\* the string of a sequence of characters; "None" if it is none of the above
Text(chars) ==
    IF \E t \in DOMAIN Chars : Chars[t] = chars
    THEN CHOOSE t \in DOMAIN Chars : Chars[t] = chars
    ELSE "None"

\* str.startswith
startswith(string, prefix) ==
    /\ Len(string) >= Len(prefix)
    /\ SubSeq(string, 1, Len(prefix)) = prefix

\* str.split("_"): the pieces between the separators, empty ones included
RECURSIVE split(_)
split(string) ==
    LET at == {k \in 1..Len(string) : string[k] = "_"} IN
    IF at = {} THEN <<string>>
    ELSE <<SubSeq(string, 1, MinOf(at) - 1)>> \o
         split(SubSeq(string, MinOf(at) + 1, Len(string)))

\* auth_service.py 53: f"token_{user.id}_{user.role.value}"
Token(user_id, role) ==
    Chars["token"] \o <<"_">> \o Chars[user_id] \o <<"_">> \o Chars[role]

LoginResponse(d, status, detail, access_token, user) ==
    [d |-> d, status |-> status, detail |-> detail,
     access_token |-> access_token, user |-> user]

\* auth_service.py 31-56: the users are refreshed from the store and the
\* first one with the username is taken (usernames are unique among the
\* users the auth service has loaded or created itself)
login(d, username) ==
    LET all == get_all_users_refreshed(d)
        named == {u \in DOMAIN all.m.users :
                     all.m.users[u].username = username}
    IN IF named = {}
       THEN LoginResponse(all, 401, "User not found", << >>, NoUser)
       ELSE LET user == all.m.users[CHOOSE u \in named : TRUE]
            IN LoginResponse(all, 200, "-", Token(user.id, user.role), user)

\* auth_service.py 58-73
verify_token(d, token) ==
    IF ~startswith(token, Chars["token_"])
    THEN LoginResponse(d, 401, "Invalid token", token, NoUser)
    ELSE LET parts == split(token) IN
    IF Len(parts) # 3
    THEN LoginResponse(d, 401, "Invalid token format", token, NoUser)
    ELSE LET ru == get_user_by_id(d, Text(parts[2])) IN
    IF ~ru.found
    THEN LoginResponse(ru.d, 401, "User not found", token, NoUser)
    ELSE LoginResponse(ru.d, 200, "-", token, ru.user)

Usernames == {"john_doe", "jane_smith", "new_user", "other_user", "nobody"}
PresentedTokens ==
    {Token(user_id, "student") : user_id \in ReqUserIds \cup NewUserIds}
        \cup {Chars["bearer"] \o <<"_">> \o Chars["s1"]}

\* POST /login of the auth service
Login(username) ==
    LET r == login(DB("auth"), username)
    IN /\ mem' = [mem EXCEPT !["auth"] = r.d.m]
       /\ UNCHANGED <<sql, nextId>>
       /\ UNCHANGED runner
       /\ last' = Entry("login", r.user.id, "-", 0, r.status, r.detail)

\* GET /verify/{token} of the auth service
VerifyToken(token) ==
    LET r == verify_token(DB("auth"), token)
    IN /\ mem' = [mem EXCEPT !["auth"] = r.d.m]
       /\ UNCHANGED <<sql, nextId>>
       /\ UNCHANGED runner
       /\ last' = Entry("verify_token", r.user.id, "-", 0,
                     r.status, r.detail)

NextAuth ==
    \/ \E request \in SignupRequests : Signup(request)
    \/ \E username \in Usernames : Login(username)
    \/ \E token \in PresentedTokens : VerifyToken(token)

SpecAuth == Init /\ [][NextAuth]_vars

(***************************************************************************)
(* C37: login/verify round trip.  For every user that exists in the store, *)
(* the token returned by login for that user is accepted by verify_token,  *)
(* which returns that same user; users created through signup, whose ids   *)
(* have the form "student_<hex>", included.                                *)
(***************************************************************************)
C37_LoginVerifyRoundTrip ==
    \A u \in DOMAIN sql.users :
        LET l == login(DB("auth"), sql.users[u].username)
            v == verify_token(l.d, l.access_token)
        IN /\ l.status = 200
           /\ l.user = sql.users[u]
           /\ v.status = 200
           /\ v.user = sql.users[u]

(***************************************************************************)
(* The users: signup of the auth service next to create_user and           *)
(* update_user of the admin service.                                       *)
(***************************************************************************)
\* admin_service.py 89-124: the id is a fresh uuid; nothing is compared with
\* the users that exist.  The request to the auth service at the end
\* stores the password in SIMPLE_PASSWORDS, which no handler reads.
create_user(d, user_id, user_data) ==
    LET new_user == [User(user_id, user_data.username, user_data.email)
                        EXCEPT !.role = user_data.role]
    IN Response(add_user([d EXCEPT !.m.users = Put(@, user_id, new_user)],
                         new_user),
                200, "-", user_id, 0)

\* admin_service.py 126-141: every key of user_data that is an attribute of
\* User is assigned
update_user(d, user_id, user_data) ==
    LET ru == get_user_by_id(d, user_id) IN
    IF ~ru.found THEN Response(ru.d, 404, "User not found", "-", 0)
    ELSE LET user == SetAttrs(ru.user, user_data, DOMAIN ru.user)
         IN Response(_save_user(ru.d, user), 200, "-", user_id, 0)

\* the ids create_user can still hand out: str(uuid.uuid4())
AdminUserIds == {"0b3e7c52-5a1f-4c9e-8d27-6f1a9b3c4d5e"}
CreateUserData ==
    [username : {"john_doe", "new_user"},
     email : {"john@university.edu", "new@university.edu"},
     role : {"student", "faculty"}]
UpdateUserData ==
    UNION {[K -> {"jane_smith", "jane@university.edu", "renamed"}] :
               K \in SUBSET {"username", "email"}}
UpdatedUserIds == {"s1", "sx"}

\* POST /users of the admin service
CreateUser(user_data) ==
    \E user_id \in AdminUserIds :
        LET r == create_user(DB("admin"), user_id, user_data)
        IN /\ user_id \notin DOMAIN sql.users
           /\ Answered("admin", r.d)
           /\ UNCHANGED runner
           /\ last' = Entry("create_user", user_id, "-", 0,
                         r.status, r.detail)

\* PUT /users/{user_id} of the admin service
UpdateUser(user_id, user_data) ==
    LET r == update_user(DB("admin"), user_id, user_data)
    IN /\ Answered("admin", r.d)
       /\ UNCHANGED runner
       /\ last' = Entry("update_user", user_id, "-", 0, r.status, r.detail)

NextUsers ==
    \/ \E request \in SignupRequests : Signup(request)
    \/ \E user_data \in CreateUserData : CreateUser(user_data)
    \/ \E user_id \in UpdatedUserIds :
       \E user_data \in UpdateUserData : UpdateUser(user_id, user_data)

SpecUsers == Init /\ [][NextUsers]_vars

None == [service |-> "None", returncode |-> "None"]

\* run_services.py 60-90: `starts` says whether the script exists and the
\* new process is still running after the two seconds
start_service(service, starts) == IF starts THEN Popen(service) ELSE None

\* the position of a service in SERVICES
ServiceIndex(service) == CHOOSE k \in 1..Len(SERVICES) : SERVICES[k] = service

\* a failed restart takes the service out of the list
check_process_DropsFailed(processes, i, starts) ==
    IF processes[i].returncode = "None" THEN processes
    ELSE LET new_process == start_service(processes[i].service, starts)
         IN IF new_process # None
            THEN [processes EXCEPT ![i] = new_process]
            ELSE SubSeq(processes, 1, i - 1) \o
                 SubSeq(processes, i + 1, Len(processes))

\* run_services.py 152-160, the body of the for loop: a process that has
\* exited is replaced if start_service returns a new one, and stays in the
\* list as it is otherwise
check_process(processes, i, starts) ==
    IF processes[i].returncode = "None" THEN processes
    ELSE LET new_process == start_service(processes[i].service, starts)
         IN IF new_process # None
            THEN [processes EXCEPT ![i] = new_process]
            ELSE processes

\* main is entered
InitRunner ==
    /\ sql = InitialFile
    /\ mem = [p \in Procs |-> _load_data(InitialFile)]
    /\ nextId = 1
    /\ last = Entry("main", "-", "-", 0, 200, "-")
    /\ runner = [phase |-> "starting", i |-> 1, processes |-> << >>,
                 down |-> {}, attempts |-> [k \in 1..Len(SERVICES) |-> 0],
                 event |-> "-"]

\* run_services.py 119-125: the next service of SERVICES is started
StartService(starts) ==
    /\ runner.phase = "starting"
    /\ runner.i <= Len(SERVICES)
    /\ LET process == start_service(SERVICES[runner.i], starts)
       IN runner' = [runner EXCEPT
              !.i = @ + 1,
              !.processes = IF process # None THEN Append(@, process) ELSE @,
              !.event = IF process # None THEN "started"
                        ELSE "failed to start"]
    /\ UNCHANGED <<sql, mem, nextId, last>>

\* run_services.py 127-144 and 176-178: after the last service main enters
\* the monitoring loop, or exits if no service could be started
EnterLoop ==
    /\ runner.phase = "starting"
    /\ runner.i = Len(SERVICES) + 1
    /\ runner' = [runner EXCEPT
           !.phase = IF runner.processes # << >> THEN "monitoring"
                     ELSE "exit",
           !.i = 1, !.event = "-"]
    /\ UNCHANGED <<sql, mem, nextId, last>>

\* a started service process exits on its own
ProcessExits(i) ==
    /\ runner.phase \in {"starting", "monitoring"}
    /\ i \in DOMAIN runner.processes
    /\ runner.processes[i].returncode = "None"
    /\ runner' = [runner EXCEPT
           !.processes[i].returncode = "exited",
           !.down = @ \cup {runner.processes[i].service},
           !.event = "-"]
    /\ UNCHANGED <<sql, mem, nextId, last>>

\* run_services.py 152-160: one iteration of the for loop.  A service that
\* is started again loads the file into its new process.
CheckProcess(starts) ==
    /\ runner.phase = "monitoring"
    /\ runner.i <= Len(runner.processes)
    /\ LET process == runner.processes[runner.i]
           service == process.service
           exited == process.returncode # "None"
           processes == check_process(runner.processes, runner.i, starts)
       IN /\ ~exited => starts
          /\ runner' = [runner EXCEPT
                 !.i = @ + 1,
                 !.processes = processes,
                 !.attempts[ServiceIndex(service)] =
                     IF exited THEN 1 - @ ELSE @,
                 !.down = IF exited /\ starts THEN @ \ {service} ELSE @,
                 !.event = IF ~exited THEN "-"
                           ELSE IF starts THEN "restarted"
                           ELSE "failed to restart"]
          /\ mem' = IF exited /\ starts /\ service \in Procs
                    THEN [mem EXCEPT ![service] = _load_data(sql)]
                    ELSE mem
    /\ UNCHANGED <<sql, nextId, last>>

\* run_services.py 148-149: the for loop is through; while True, sleep
Sleep ==
    /\ runner.phase = "monitoring"
    /\ runner.i > Len(runner.processes)
    /\ runner' = [runner EXCEPT !.i = 1, !.event = "-"]
    /\ UNCHANGED <<sql, mem, nextId, last>>

\* run_services.py 162-174: Ctrl+C ends the loop and stops the services
KeyboardInterrupt ==
    /\ runner.phase = "monitoring"
    /\ runner' = [runner EXCEPT
           !.phase = "stopped",
           !.processes = [k \in DOMAIN @ |->
                             [@[k] EXCEPT !.returncode = "exited"]],
           !.event = "-"]
    /\ UNCHANGED <<sql, mem, nextId, last>>

MonitoringLoop == (\E starts \in BOOLEAN : CheckProcess(starts)) \/ Sleep

NextRunner ==
    \/ \E starts \in BOOLEAN : StartService(starts)
    \/ EnterLoop
    \/ \E i \in 1..Len(SERVICES) : ProcessExits(i)
    \/ \E starts \in BOOLEAN : CheckProcess(starts)
    \/ Sleep
    \/ KeyboardInterrupt

\* main is a sequential program: while it is in the loop and not
\* interrupted, the loop takes its next step
SpecRunner == InitRunner /\ [][NextRunner]_vars /\ WF_vars(MonitoringLoop)

(***************************************************************************)
(* C39: while the monitoring loop is active, every service that was        *)
(* started successfully and whose process has exited is followed by a      *)
(* restart attempt for that same service, and after a failed attempt by    *)
(* another one: whatever the number of attempts so far, one more follows,  *)
(* unless the runner is interrupted.                                       *)
(***************************************************************************)
C39_ExitedServiceIsRestarted ==
    \A k \in 1..Len(SERVICES) : \A n \in 0..1 :
        (/\ runner.phase = "monitoring"
         /\ SERVICES[k] \in runner.down
         /\ runner.attempts[k] = n)
        ~> (runner.attempts[k] # n \/ runner.phase = "stopped")

\* a restart has failed for the second time (or a later even time) and the
\* service is still being monitored while it is down
C39_RestartFailedAgain ==
    \E k \in 1..Len(SERVICES) :
        /\ runner.phase = "monitoring"
        /\ runner.event = "failed to restart"
        /\ runner.i > 1 /\ runner.processes[runner.i - 1].service = SERVICES[k]
        /\ SERVICES[k] \in runner.down
        /\ runner.attempts[k] = 0
====
